---- MODULE Spec2Model ----
(***************************************************************************)
(* Melbourne Economics Events (nk027/melbourne_econ): the in-memory event  *)
(* store of src/src/App.js, its source loading handlers and the filter     *)
(* pipeline (filteredEvents), as state machines.                           *)
(*                                                                         *)
(* Time is counted in ticks; a day has DayLen ticks.  A timestamp is an    *)
(* absolute (UTC) tick count, the viewer's zone is tzOffset ticks ahead of *)
(* UTC.  Text is a sequence of one-character strings.  An Event carries a  *)
(* field oid, the identity of the JavaScript object (two events parsed     *)
(* from the same text are different objects with the same content).        *)
(***************************************************************************)
EXTENDS Integers, Sequences, FiniteSets, TLC

VARIABLES
    events,             \* useState([])            App.js:24
    sources,            \* useState([])            App.js:25
    selectedSources,    \* useState(new Set())     App.js:30
    focusedSource,      \* useState(null)          App.js:40
    searchTerm,         \* debounced rawQuery      App.js:29
    selectedTags,       \* useState(new Set())     App.js:39
    dateFilter,         \* useState("upcoming")    App.js:32
    customStartDate,    \* useState("")            App.js:33
    customEndDate,      \* useState("")            App.js:34
    now,                \* the clock read by new Date()   App.js:174
    tzOffset,           \* the viewer's offset from UTC
    filteredEvents,     \* the useMemo result      App.js:149
    refiltered,         \* the pipeline applied to its own output
    inflight,           \* pending fetches and file reads
    alerts,             \* the alert() calls made so far  App.js:82
    delivered,          \* the loads completed so far, in completion order
    userLoads,          \* number of user-started loads so far
    pc,                 \* position of the filter run / of the mount effect
    asked,              \* the prompt() answers of the handler of this step
    view,               \* useState("list")       App.js:27
    activeTab,          \* useState("events")     App.js:26
    currentDate,        \* useState(new Date())   App.js:35
    search,             \* location.search, as its parameters
    href,               \* the query string the page was opened with
    icsEvent,           \* the event handed to generateICS
    icsText,            \* the text generateICS returned
    icsParsed,          \* the events parsed from that text
    colorName,          \* the source name handed to getSourceColor
    colorResult,        \* what the call gave
    selectedEvent,      \* useState(null)         App.js:36
    selectedEventIndex, \* useState(null)         App.js:37
    ignoreClickClose,   \* useRef(false)          EventModal.js:12
    pressed             \* where the last mousedown on the open modal was

\* The view state mirrored into the location, and the location.
urlVars == << view, activeTab, currentDate, search, href >>

\* The export of one event as ICS text.
icsVars == << icsEvent, icsText, icsParsed >>

\* A call of getSourceColor.
colorVars == << colorName, colorResult >>

\* The event modal.
modalVars == << selectedEvent, selectedEventIndex, ignoreClickClose, pressed >>

vars == << events, sources, selectedSources, focusedSource, searchTerm,
           selectedTags, dateFilter, customStartDate, customEndDate, now,
           tzOffset, filteredEvents, refiltered, inflight, alerts,
           delivered, userLoads, pc, asked, urlVars, icsVars,
           colorVars, modalVars >>

----------------------------------------------------------------------------
(* Bounds of the model *)

MaxEvents == 2

MaxUserLoads == 1

----------------------------------------------------------------------------
(* Values *)

Null == "null"

NoDate == -1

DayLen == 4

\* The configured sources (the model keeps the first two of the five).
DEFAULT_SOURCES == << "Monash EBS", "Monash Econ" >>

\* Two of the preset tags, as text.
PRESET_TAGS == { << "E", "B", "S" >>, << "C", "H", "E" >> }

DateFilters == { "upcoming", "past", "all", "custom" }

\* JavaScript's null, undefined and NaN, a number and a reference to an
\* object, as values a state variable can hold.
NullValue == [ kind |-> "null" ]

Undefined == [ kind |-> "undefined" ]

NaN == [ kind |-> "NaN" ]

Num(n) == [ kind |-> "number", n |-> n ]

Obj(e) == [ kind |-> "object", object |-> e ]

\* No prompt() was shown.
NoPrompt == [ shown |-> 0, url |-> "", name |-> "" ]

\* The parameters of a location without a query string.  A parameter that
\* is absent (get() gives null) and one that is empty are both falsy to the
\* read effect: the model keeps one value for both.
NoQuery == [ view |-> "", tab |-> "", q |-> << >>, start |-> NoDate,
             end |-> NoDate, date |-> NoDate, src |-> {}, tags |-> {},
             range |-> "" ]

----------------------------------------------------------------------------
(* Text: String.prototype.toLowerCase, trim, includes *)

LowerChar(c) ==
    CASE c = "B" -> "b"
      [] c = "M" -> "m"
      [] c = "Z" -> "z"
      [] c = "C" -> "c"
      [] c = "E" -> "e"
      [] c = "H" -> "h"
      [] c = "S" -> "s"
      [] OTHER -> c

toLowerCase(s) == [i \in 1..Len(s) |-> LowerChar(s[i])]

RECURSIVE trimStart(_)
trimStart(s) ==
    IF s # << >> /\ Head(s) = " " THEN trimStart(Tail(s)) ELSE s

RECURSIVE trimEnd(_)
trimEnd(s) ==
    IF s # << >> /\ s[Len(s)] = " " THEN trimEnd(SubSeq(s, 1, Len(s) - 1)) ELSE s

trim(s) == trimEnd(trimStart(s))

\* s.includes(sub): sub occurs in s as a contiguous run.
includes(s, sub) ==
    \E i \in 0..(Len(s) - Len(sub)) : SubSeq(s, i + 1, i + Len(sub)) = sub

\* fuzzyIncludes(text, q): the characters of q occur in text in order.
RECURSIVE fuzzyIncludes(_, _)
fuzzyIncludes(text, q) ==
    IF q = << >> THEN TRUE
    ELSE IF text = << >> THEN FALSE
    ELSE IF Head(text) = Head(q) THEN fuzzyIncludes(Tail(text), Tail(q))
    ELSE fuzzyIncludes(Tail(text), q)

----------------------------------------------------------------------------
(* Dates *)

\* new Date(y, m, d) of a timestamp t: the start of t's local day.
LocalMidnight(t, tz) == ((t + tz) \div DayLen) * DayLen - tz

\* new Date("YYYY-MM-DD"): a date-only string is read as UTC midnight.
ParseDateOnly(d) == d * DayLen

\* endDate.setHours(23, 59, 59): the last tick of the local day of t.
EndOfLocalDay(t, tz) == LocalMidnight(t, tz) + DayLen - 1

----------------------------------------------------------------------------
(* Arrays live in a heap: a sequence of arrays, an array is named by its   *)
(* index.  Array.prototype.filter allocates, Array.prototype.sort works in *)
(* place and returns the array it was given.                               *)

KeepMasked(arr, mask) ==
    LET idx == { i \in 1..Len(arr) : mask[i] }
        RECURSIVE Build(_)
        Build(i) ==
            IF i > Len(arr) THEN << >>
            ELSE IF i \in idx THEN << arr[i] >> \o Build(i + 1)
            ELSE Build(i + 1)
    IN  Build(1)

ArrayFilterInPlace(heap, ref, mask) ==
    [ heap |-> [heap EXCEPT ![ref] = KeepMasked(heap[ref], mask)], ref |-> ref ]

ArrayFilter(heap, ref, mask) ==
    [ heap |-> Append(heap, KeepMasked(heap[ref], mask)), ref |-> Len(heap) + 1 ]

RECURSIVE InsertByStartUnstable(_, _)
InsertByStartUnstable(e, sorted) ==
    IF sorted = << >> THEN << e >>
    ELSE IF Head(sorted).start < e.start
         THEN << Head(sorted) >> \o InsertByStartUnstable(e, Tail(sorted))
         ELSE << e >> \o sorted

\* One insertion of a stable sort with comparator (a, b) => a.start - b.start:
\* e goes behind every element that does not compare greater.
RECURSIVE InsertByStart(_, _)
InsertByStart(e, sorted) ==
    IF sorted = << >> THEN << e >>
    ELSE IF Head(sorted).start <= e.start
         THEN << Head(sorted) >> \o InsertByStart(e, Tail(sorted))
         ELSE << e >> \o sorted

SortedByStartSkipped(arr) == arr

RECURSIVE SortedByStart(_)
SortedByStart(arr) ==
    IF arr = << >> THEN << >>
    ELSE InsertByStart(arr[Len(arr)], SortedByStart(SubSeq(arr, 1, Len(arr) - 1)))

ArraySort(heap, ref) ==
    [ heap |-> [heap EXCEPT ![ref] = SortedByStart(heap[ref])], ref |-> ref ]

----------------------------------------------------------------------------
(* The filter pipeline: filteredEvents, App.js:149-208 *)

SourceMatchOrAll(event, sel) == sel = {} \/ event.source \in sel

SourceMatch(event, sel) == event.source \in sel

SearchMatchSummaryOnly(event, q) ==
    q = << >> \/ includes(toLowerCase(event.summary), q)

SearchMatch(event, q) ==
    LET summaryLower == toLowerCase(event.summary)
        descriptionLower == toLowerCase(event.description)
        eventText == summaryLower \o << " " >> \o descriptionLower
    IN  \/ q = << >>
        \/ fuzzyIncludes(eventText, q)
        \/ includes(summaryLower, toLowerCase(q))
        \/ includes(descriptionLower, toLowerCase(q))

TagMatchAnyCase(event, tags) ==
    tags = {} \/ \E tag \in tags :
                    includes(toLowerCase(event.summary), toLowerCase(tag))

TagMatch(event, tags) ==
    tags = {} \/ \E tag \in tags : includes(event.summary, tag)

\* The callback of events.filter(...), lines 152-172.
PassesStages(event, sel, term, tags) ==
    /\ SourceMatch(event, sel)
    /\ SearchMatch(event, toLowerCase(trim(term)))
    /\ TagMatch(event, tags)

IsPastInclusive(event, today) == event.start <= today

IsPast(event, today) == event.start < today

IsUpcoming(event, today) == event.start >= today

AfterCustomStart(event, cs) == event.start >= ParseDateOnly(cs)

BeforeCustomEnd(event, ce, tz) ==
    event.start <= EndOfLocalDay(ParseDateOnly(ce), tz)

\* The switch on dateFilter, lines 177-197.
DateStage(h, mode, cs, ce, t, tz) ==
    LET today == LocalMidnight(t, tz)
        arr == h.heap[h.ref]
    IN  CASE mode = "past" ->
               ArrayFilter(h.heap, h.ref,
                           [i \in 1..Len(arr) |-> IsPast(arr[i], today)])
          [] mode = "upcoming" ->
               ArrayFilter(h.heap, h.ref,
                           [i \in 1..Len(arr) |-> IsUpcoming(arr[i], today)])
          [] mode = "custom" ->
               LET h1 == IF cs # NoDate
                         THEN ArrayFilter(h.heap, h.ref,
                                  [i \in 1..Len(arr) |-> AfterCustomStart(arr[i], cs)])
                         ELSE h
                   arr1 == h1.heap[h1.ref]
               IN  IF ce # NoDate
                   THEN ArrayFilter(h1.heap, h1.ref,
                            [i \in 1..Len(arr1) |-> BeforeCustomEnd(arr1[i], ce, tz)])
                   ELSE h1
          [] OTHER -> h

\* One evaluation of the useMemo body on the array evs: the array it
\* returns (result) and the array it was given as it is afterwards (store).
RunFilter(evs, sel, term, tags, mode, cs, ce, t, tz) ==
    LET h0 == ArrayFilter(<< evs >>, 1,
                  [i \in 1..Len(evs) |-> PassesStages(evs[i], sel, term, tags)])
        h1 == DateStage(h0, mode, cs, ce, t, tz)
        h2 == ArraySort(h1.heap, h1.ref)
    IN  [ store |-> h2.heap[1], result |-> h2.heap[h2.ref] ]

----------------------------------------------------------------------------
(* The pipeline run on stores and criteria drawn from small sets.          *)

FilterSources == { "Monash EBS", "Monash Econ" }

FilterStarts == { 3, 7 }

FilterSummaries == { << "E", "B", "S", " ", "x" >>, << "c", "h", "e" >> }

FilterTerms == { << >>, << " ", "E" >> }

FilterTagSets == { {}, { << "E", "B", "S" >> } }

FilterDays == { NoDate, 1 }

FilterNows == { 5, 8 }

FilterOffsets == { 1 }

EventContents ==
    [ source : FilterSources, start : FilterStarts, summary : FilterSummaries ]

MakeEvent(load, i, name, item) ==
    [ oid |-> << load, i >>, uid |-> item.uid, source |-> name,
      summary |-> item.summary, description |-> item.description,
      start |-> item.start ]

StoreOf(f) ==
    [ i \in DOMAIN f |->
        MakeEvent(0, i, f[i].source,
                  [ uid |-> "", summary |-> f[i].summary,
                    description |-> << >>, start |-> f[i].start ]) ]

Range(s) == { s[i] : i \in DOMAIN s }

\* Array.from(new Set(arr)): first occurrences, in order.
RECURSIVE Dedup(_)
Dedup(arr) ==
    IF arr = << >> THEN << >>
    ELSE LET init == Dedup(SubSeq(arr, 1, Len(arr) - 1))
             last == arr[Len(arr)]
         IN  IF last \in Range(init) THEN init ELSE Append(init, last)

InitFilter ==
    /\ \E n \in 0..MaxEvents : \E f \in [1..n -> EventContents] :
          /\ events = StoreOf(f)
          /\ sources = Dedup([ i \in 1..n |-> f[i].source ])
    /\ selectedSources \in SUBSET FilterSources
    /\ focusedSource = Null
    /\ searchTerm \in FilterTerms
    /\ selectedTags \in FilterTagSets
    /\ dateFilter \in DateFilters
    /\ customStartDate \in FilterDays
    /\ customEndDate \in FilterDays
    /\ now \in FilterNows
    /\ tzOffset \in FilterOffsets
    /\ filteredEvents = << >>
    /\ refiltered = << >>
    /\ inflight = {}
    /\ alerts = << >>
    /\ delivered = << >>
    /\ userLoads = 0
    /\ pc = "start"
    /\ asked = NoPrompt
    /\ view = "list"
    /\ activeTab = "events"
    /\ currentDate = now
    /\ search = NoQuery
    /\ href = NoQuery
    /\ icsEvent = Null
    /\ icsText = << >>
    /\ icsParsed = << >>
    /\ colorName = << >>
    /\ colorResult = NullValue
    /\ selectedEvent = NullValue
    /\ selectedEventIndex = NullValue
    /\ ignoreClickClose = FALSE
    /\ pressed = Null

\* The useMemo body runs on the store.
ComputeFiltered ==
    /\ pc = "start"
    /\ LET r == RunFilter(events, selectedSources, searchTerm, selectedTags,
                          dateFilter, customStartDate, customEndDate, now, tzOffset)
       IN  /\ events' = r.store
           /\ filteredEvents' = r.result
    /\ pc' = "computed"
    /\ UNCHANGED << sources, selectedSources, focusedSource, searchTerm,
                    selectedTags, dateFilter, customStartDate, customEndDate,
                    now, tzOffset, refiltered, inflight, alerts, delivered,
                    userLoads, asked, urlVars, icsVars,
                    colorVars, modalVars >>

\* The same body runs on the array it returned, with the same criteria.
Refilter ==
    /\ pc = "computed"
    /\ LET r == RunFilter(filteredEvents, selectedSources, searchTerm, selectedTags,
                          dateFilter, customStartDate, customEndDate, now, tzOffset)
       IN  /\ filteredEvents' = r.store
           /\ refiltered' = r.result
    /\ pc' = "refiltered"
    /\ UNCHANGED << events, sources, selectedSources, focusedSource, searchTerm,
                    selectedTags, dateFilter, customStartDate, customEndDate,
                    now, tzOffset, inflight, alerts, delivered, userLoads,
                    asked, urlVars, icsVars,
                    colorVars, modalVars >>

NextFilter == ComputeFiltered \/ Refilter

SpecFilter == InitFilter /\ [][NextFilter]_vars

----------------------------------------------------------------------------
(* Claims about the filter pipeline, under SpecFilter *)

Criteria ==
    << selectedSources, searchTerm, selectedTags, dateFilter,
       customStartDate, customEndDate >>

ResultInMode(mode) ==
    RunFilter(events, selectedSources, searchTerm, selectedTags, mode,
              customStartDate, customEndDate, now, tzOffset).result

\* The position in the store of the event object e.
StoreIndex(e) == CHOOSE i \in 1..Len(events) : events[i].oid = e.oid

\* C1: with an empty selected-source set the filtered result is the empty
\* sequence, whatever the store, the search term, the tags, the date mode
\* and the custom bounds are.
C1_EmptySelectionEmptyResult ==
    (pc # "start" /\ selectedSources = {}) => filteredEvents = << >>

C1_Witness ==
    /\ pc = "computed"
    /\ selectedSources = {}
    /\ Len(events) = MaxEvents
    /\ searchTerm = << >>
    /\ selectedTags = {}
    /\ dateFilter = "all"
    /\ filteredEvents = << >>

\* C2: for a fixed store, fixed other criteria and a fixed now, the results of
\* mode 'upcoming' and mode 'past' are disjoint and together are exactly the
\* result of mode 'all'; an event of 'all' is in 'past' exactly when its
\* start is before the start of the current local day.
C2_UpcomingPastPartition ==
    LET up == ResultInMode("upcoming")
        past == ResultInMode("past")
        all == ResultInMode("all")
        today == LocalMidnight(now, tzOffset)
    IN  pc = "computed" =>
          /\ Range(up) \cap Range(past) = {}
          /\ Range(up) \cup Range(past) = Range(all)
          /\ Len(up) + Len(past) = Len(all)
          /\ \A e \in Range(all) : (e \in Range(past)) <=> (e.start < today)
          /\ \A e \in Range(all) : (e \in Range(up)) <=> ~(e.start < today)
          /\ dateFilter \in { "upcoming", "past", "all" }
                => filteredEvents = ResultInMode(dateFilter)

C2_Witness ==
    /\ pc = "computed"
    /\ dateFilter = "upcoming"
    /\ filteredEvents # << >>
    /\ ResultInMode("past") # << >>
    /\ \E e \in Range(filteredEvents) : e.start = LocalMidnight(now, tzOffset)

\* C3: the pipeline applied with the same criteria to its own output returns
\* the same sequence: the same events in the same order.
C3_FilterIdempotent ==
    pc = "refiltered" => refiltered = filteredEvents

C3_Witness ==
    /\ pc = "refiltered"
    /\ Len(refiltered) = MaxEvents
    /\ refiltered[1].start = refiltered[2].start
    /\ searchTerm # << >>
    /\ selectedTags # {}

\* C4: the filtered result is ascending by start, and two events with equal
\* start are in the relative order they have in the store.
C4_SortedStable ==
    pc = "computed" =>
        \A i, j \in 1..Len(filteredEvents) :
            i < j =>
                /\ filteredEvents[i].start <= filteredEvents[j].start
                /\ filteredEvents[i].start = filteredEvents[j].start
                      => StoreIndex(filteredEvents[i]) < StoreIndex(filteredEvents[j])

C4_Witness ==
    /\ pc = "computed"
    /\ Len(filteredEvents) = MaxEvents
    /\ \/ filteredEvents[1].start = filteredEvents[2].start
       \/ StoreIndex(filteredEvents[1]) > StoreIndex(filteredEvents[2])

\* C5: computing the filtered result changes neither the store (its members,
\* their order, the fields of its records) nor any filter criterion, in
\* every date mode.
C5_ComputeHasNoSideEffects ==
    [][ /\ events' = events
        /\ Criteria' = Criteria
        /\ (pc = "computed" => filteredEvents' = filteredEvents) ]_vars

C5_Witness ==
    /\ pc = "computed"
    /\ dateFilter = "all"
    /\ Len(filteredEvents) = Len(events)
    /\ filteredEvents # events

----------------------------------------------------------------------------
(* Loading sources: the responses a load can get, parseICS, and the state  *)
(* updates of a completed load (App.js:53-84, 132-147).                    *)

ItemA == [ uid |-> "u1", summary |-> << "E", "B", "S", " ", "x" >>,
           description |-> << >>, start |-> 7 ]

ItemB == [ uid |-> "u2", summary |-> << "c", "h", "e" >>,
           description |-> << >>, start |-> 3 ]

\* A body is calendar text (its VEVENT blocks) or text that is not ICS.
NotICS == [ ics |-> FALSE, items |-> << >> ]

Feed == [ ics |-> TRUE, items |-> << ItemA, ItemB >> ]

\* fetch() rejects (network failure), or resolves with a status and a body:
\* it resolves also when the status is not a success status.
FetchResponses ==
    { [ outcome |-> "reject", status |-> 0, body |-> NotICS ],
      [ outcome |-> "resolve", status |-> 404, body |-> NotICS ],
      [ outcome |-> "resolve", status |-> 200, body |-> Feed ] }

\* What a FileReader hands to onload, and what a user pastes.
TextResponses ==
    { [ outcome |-> "resolve", status |-> 0, body |-> Feed ] }

UserSourceNames == { "Monash EBS", "Custom" }

\* parseICS(content, sourceName): one Event per VEVENT block, in order; text
\* that is not ICS gives no event.
parseICS(load) ==
    IF load.resp.body.ics
    THEN [ i \in 1..Len(load.resp.body.items) |->
             MakeEvent(load.id, i, load.name, load.resp.body.items[i]) ]
    ELSE << >>

AppendNewUids(prev, parsed) ==
    prev \o SelectSeq(parsed, LAMBDA e : \A k \in 1..Len(prev) : prev[k].uid # e.uid)

\* setEvents((prev) => [...prev, ...parsed])
AppendEvents(prev, parsed) == prev \o parsed

RegisterAgain(prev, sourceName) == Append(prev, sourceName)

\* setSources((prev) => Array.from(new Set([...prev, sourceName])))
RegisterSource(prev, sourceName) == Dedup(Append(prev, sourceName))

SelectOnly(prev, sourceName) == { sourceName }

\* setSelectedSources((prev) => new Set(prev).add(sourceName))
SelectSource(prev, sourceName) == prev \cup { sourceName }

AlertTwice(prev, sourceName) == prev \o << sourceName, sourceName >>

\* alert(`Failed to load calendar: ${sourceName}`)
Alert(prev, sourceName) == Append(prev, sourceName)

\* The try block of loadICSFromURL after the awaits (lines 75-79), the
\* onload callback (lines 59-65) and the paste branch (lines 142-145).
Loaded(st, load) ==
    LET parsed == parseICS(load)
    IN  [ st EXCEPT !.events = AppendEvents(st.events, parsed),
                    !.sources = RegisterSource(st.sources, load.name),
                    !.selectedSources = SelectSource(st.selectedSources, load.name) ]

\* The catch block of loadICSFromURL (lines 80-83).
Failed(st, load) == [ st EXCEPT !.alerts = Alert(st.alerts, load.name) ]

\* The effect of the completion of a load on the state st.
Settled(st, load) ==
    IF load.resp.outcome = "reject" THEN Failed(st, load) ELSE Loaded(st, load)

Store == [ events |-> events, sources |-> sources,
           selectedSources |-> selectedSources, alerts |-> alerts ]

\* The URL write effect (lines 238-261): the parameters replaceState puts
\* into the location.  date is currentDate.toISOString().slice(0, 10), the
\* UTC day of the navigation date; src and tags are the members joined by
\* commas (no name of the model holds a comma, so split(",") gives the
\* members back; an empty set is written as the empty text).
URLParams(v, tab, q, cs, ce, cd, sel, tags, range) ==
    [ view |-> v, tab |-> tab, q |-> q, start |-> cs, end |-> ce,
      date |-> cd \div DayLen, src |-> sel, tags |-> tags, range |-> range ]

URLReadOpened(p, v, sel, tags, t) ==
    [ view |-> IF href.view # "" THEN href.view ELSE "list",
      activeTab |-> IF href.tab # "" THEN href.tab ELSE "events",
      searchTerm |-> href.q,
      customStartDate |-> href.start,
      customEndDate |-> href.end,
      currentDate |-> IF href.date # NoDate THEN ParseDateOnly(href.date) ELSE t,
      selectedSources |-> IF href.src # {} THEN href.src ELSE sel,
      selectedTags |-> IF href.tags # {} THEN href.tags ELSE tags,
      dateFilter |-> IF href.range # "" THEN href.range
                     ELSE IF v = "list" THEN "upcoming" ELSE "all" ]

\* The URL read effect (lines 264-275) on the parameters p: the values its
\* setters are called with.  v, sel and tags are the view, the selected
\* sources and the selected tags of the render the effect belongs to.
URLRead(p, v, sel, tags, t) ==
    [ view |-> IF p.view # "" THEN p.view ELSE "list",
      activeTab |-> IF p.tab # "" THEN p.tab ELSE "events",
      searchTerm |-> p.q,
      customStartDate |-> p.start,
      customEndDate |-> p.end,
      currentDate |-> IF p.date # NoDate THEN ParseDateOnly(p.date) ELSE t,
      selectedSources |-> IF p.src # {} THEN p.src ELSE sel,
      selectedTags |-> IF p.tags # {} THEN p.tags ELSE tags,
      dateFilter |-> IF p.range # "" THEN p.range
                     ELSE IF v = "list" THEN "upcoming" ELSE "all" ]

\* The render after a state update: useMemo recomputes filteredEvents, and
\* the URL write effect mirrors the state into the location.
Render(evs, sel) ==
    LET r == RunFilter(evs, sel, searchTerm, selectedTags, dateFilter,
                       customStartDate, customEndDate, now, tzOffset)
    IN  /\ events' = r.store
        /\ filteredEvents' = r.result
        /\ search' = URLParams(view, activeTab, searchTerm, customStartDate,
                               customEndDate, currentDate, sel, selectedTags,
                               dateFilter)

----------------------------------------------------------------------------
(* The application: mount, load completions, user-started loads, source    *)
(* toggles.                                                                *)

Init ==
    /\ events = << >>
    /\ sources = << >>
    /\ selectedSources = {}
    /\ focusedSource = Null
    /\ searchTerm = << >>
    /\ selectedTags = {}
    /\ dateFilter = "upcoming"
    /\ customStartDate = NoDate
    /\ customEndDate = NoDate
    /\ now = 5
    /\ tzOffset = 1
    /\ filteredEvents = << >>
    /\ refiltered = << >>
    /\ inflight = {}
    /\ alerts = << >>
    /\ delivered = << >>
    /\ userLoads = 0
    /\ pc = "unmounted"
    /\ asked = NoPrompt
    /\ view = "list"
    /\ activeTab = "events"
    /\ currentDate = now
    /\ search = NoQuery
    /\ href = NoQuery
    /\ icsEvent = Null
    /\ icsText = << >>
    /\ icsParsed = << >>
    /\ colorName = << >>
    /\ colorResult = NullValue
    /\ selectedEvent = NullValue
    /\ selectedEventIndex = NullValue
    /\ ignoreClickClose = FALSE
    /\ pressed = Null

\* The effects of the first render, in the order of their declaration: one
\* loadICSFromURL per configured source (lines 45-51), the URL write effect
\* (lines 238-261), which replaces the location by the parameters of the
\* initial state, and then the URL read effect (lines 264-275), which reads
\* the location as it is by then; the render that follows the setters of
\* the read effect runs the filter and the write effect again.  (The 200 ms
\* debounce between rawQuery and searchTerm is not modelled: searchTerm
\* stands for both.)
Mount ==
    /\ pc = "unmounted"
    /\ pc' = "mounted"
    /\ \E rs \in [1..Len(DEFAULT_SOURCES) -> FetchResponses] :
          inflight' = { [ id |-> i, kind |-> "fetch", name |-> DEFAULT_SOURCES[i],
                          resp |-> rs[i] ] : i \in 1..Len(DEFAULT_SOURCES) }
    /\ LET written == URLParams(view, activeTab, searchTerm, customStartDate,
                                customEndDate, currentDate, selectedSources,
                                selectedTags, dateFilter)
           st == URLRead(written, view, selectedSources, selectedTags, now)
           r == RunFilter(events, st.selectedSources, st.searchTerm,
                          st.selectedTags, st.dateFilter, st.customStartDate,
                          st.customEndDate, now, tzOffset)
       IN  /\ view' = st.view
           /\ activeTab' = st.activeTab
           /\ searchTerm' = st.searchTerm
           /\ customStartDate' = st.customStartDate
           /\ customEndDate' = st.customEndDate
           /\ currentDate' = st.currentDate
           /\ selectedSources' = st.selectedSources
           /\ selectedTags' = st.selectedTags
           /\ dateFilter' = st.dateFilter
           /\ events' = r.store
           /\ filteredEvents' = r.result
           /\ search' = URLParams(st.view, st.activeTab, st.searchTerm,
                                  st.customStartDate, st.customEndDate,
                                  st.currentDate, st.selectedSources,
                                  st.selectedTags, st.dateFilter)
    /\ asked' = NoPrompt
    /\ UNCHANGED << sources, focusedSource, now, tzOffset, refiltered, alerts,
                    delivered, userLoads, href, icsVars,
                    colorVars, modalVars >>

\* A pending fetch or file read completes: loadICSFromURL resumes after its
\* awaits (lines 74-83), or reader.onload runs (lines 58-66).
SettleLoad(load) ==
    /\ load \in inflight
    /\ LET st == Settled(Store, load)
       IN  /\ inflight' = inflight \ { load }
           /\ delivered' = Append(delivered, load)
           /\ sources' = st.sources
           /\ selectedSources' = st.selectedSources
           /\ alerts' = st.alerts
           /\ Render(st.events, st.selectedSources)
    /\ asked' = NoPrompt
    /\ UNCHANGED << focusedSource, searchTerm, selectedTags, dateFilter,
                    customStartDate, customEndDate, now, tzOffset, refiltered,
                    userLoads, pc, view, activeTab, currentDate, href, icsVars,
                    colorVars, modalVars >>

Settle == \E load \in inflight : SettleLoad(load)

\* handleFileUpload (lines 53-69): no file chosen, or a read is started.
FileUpload ==
    /\ pc = "mounted"
    /\ userLoads < MaxUserLoads
    /\ \E chosen \in BOOLEAN, name \in UserSourceNames, r \in TextResponses :
          IF ~chosen THEN UNCHANGED << inflight, userLoads >>
          ELSE /\ inflight' = inflight \cup
                     { [ id |-> Len(DEFAULT_SOURCES) + userLoads + 1, kind |-> "file",
                         name |-> name, resp |-> r ] }
               /\ userLoads' = userLoads + 1
    /\ asked' = NoPrompt
    /\ UNCHANGED << events, sources, selectedSources, focusedSource, searchTerm,
                    selectedTags, dateFilter, customStartDate, customEndDate,
                    now, tzOffset, filteredEvents, refiltered, alerts,
                    delivered, pc, urlVars, icsVars,
                    colorVars, modalVars >>

NoAnswerIgnored(answer) == FALSE

\* !answer: prompt() gave null (cancelled) or the empty string.
NoAnswer(answer) == answer = ""

\* handleAddICSURL (lines 132-147): either prompt may be cancelled or left
\* empty, and the second prompt is shown only after an answer to the first;
\* an http(s) URL starts a fetch, any other text is parsed at once.
AddICSURL ==
    /\ pc = "mounted"
    /\ userLoads < MaxUserLoads
    /\ \E url \in { "", "http", "text" }, name \in UserSourceNames \cup { "" } :
          IF NoAnswer(url)
          THEN /\ asked' = [ shown |-> 1, url |-> url, name |-> "" ]
               /\ UNCHANGED << events, sources, selectedSources, filteredEvents,
                               inflight, delivered, userLoads, search >>
          ELSE IF NoAnswer(name)
          THEN /\ asked' = [ shown |-> 2, url |-> url, name |-> name ]
               /\ UNCHANGED << events, sources, selectedSources, filteredEvents,
                               inflight, delivered, userLoads, search >>
          ELSE IF url = "http"
          THEN /\ asked' = [ shown |-> 2, url |-> url, name |-> name ]
               /\ \E r \in FetchResponses :
                     inflight' = inflight \cup
                         { [ id |-> Len(DEFAULT_SOURCES) + userLoads + 1,
                             kind |-> "fetch", name |-> name, resp |-> r ] }
               /\ userLoads' = userLoads + 1
               /\ UNCHANGED << events, sources, selectedSources, filteredEvents,
                               delivered, search >>
          ELSE /\ asked' = [ shown |-> 2, url |-> url, name |-> name ]
               /\ \E r \in TextResponses :
                  LET load == [ id |-> Len(DEFAULT_SOURCES) + userLoads + 1,
                                kind |-> "paste", name |-> name, resp |-> r ]
                      st == Loaded(Store, load)
                  IN  /\ delivered' = Append(delivered, load)
                      /\ sources' = st.sources
                      /\ selectedSources' = st.selectedSources
                      /\ Render(st.events, st.selectedSources)
                      /\ userLoads' = userLoads + 1
                      /\ UNCHANGED inflight
    /\ UNCHANGED << focusedSource, searchTerm, selectedTags, dateFilter,
                    customStartDate, customEndDate, now, tzOffset, refiltered,
                    alerts, pc, view, activeTab, currentDate, href, icsVars,
                    colorVars, modalVars >>

\* toggleSource (lines 86-96), on a source shown in the filter panel.
ToggleSource ==
    /\ \E source \in Range(sources) :
          LET newSet == IF source \in selectedSources
                        THEN selectedSources \ { source }
                        ELSE selectedSources \cup { source }
          IN  /\ selectedSources' = newSet
              /\ Render(events, newSet)
    /\ asked' = NoPrompt
    /\ UNCHANGED << sources, focusedSource, searchTerm, selectedTags, dateFilter,
                    customStartDate, customEndDate, now, tzOffset, refiltered,
                    inflight, alerts, delivered, userLoads, pc, view, activeTab,
                    currentDate, href, icsVars,
                    colorVars, modalVars >>

\* handleSourceDoubleClick (lines 97-107).
SourceDoubleClick ==
    /\ \E source \in Range(sources) :
          IF focusedSource = source
          THEN /\ selectedSources' = Range(sources)
               /\ focusedSource' = Null
               /\ Render(events, Range(sources))
          ELSE /\ selectedSources' = { source }
               /\ focusedSource' = source
               /\ Render(events, { source })
    /\ asked' = NoPrompt
    /\ UNCHANGED << sources, searchTerm, selectedTags, dateFilter,
                    customStartDate, customEndDate, now, tzOffset, refiltered,
                    inflight, alerts, delivered, userLoads, pc, view, activeTab,
                    currentDate, href, icsVars,
                    colorVars, modalVars >>

\* Loading, with the sources toggled in between.
Next ==
    \/ Mount
    \/ Settle
    \/ FileUpload
    \/ AddICSURL
    \/ ToggleSource

Spec == Init /\ [][Next]_vars

\* The configured sources loading, with the filter panel used in between.
NextSelect ==
    \/ Mount
    \/ Settle
    \/ ToggleSource
    \/ SourceDoubleClick

SpecSelect == Init /\ [][NextSelect]_vars

----------------------------------------------------------------------------
(* Claims about the event store and the loading of sources, under Spec *)

IsPrefix(a, b) == Len(a) <= Len(b) /\ SubSeq(b, 1, Len(a)) = a

Resolved(load) == load.resp.outcome = "resolve"

Rejected(load) == load.resp.outcome = "reject"

\* The load whose completion is the step from the current state, if any.
JustDelivered == delivered'[Len(delivered')]

Delivery == Len(delivered') = Len(delivered) + 1

RECURSIVE ParsedInOrder(_)
ParsedInOrder(loads) ==
    IF loads = << >> THEN << >>
    ELSE ParsedInOrder(SubSeq(loads, 1, Len(loads) - 1))
            \o (IF Resolved(loads[Len(loads)]) THEN parseICS(loads[Len(loads)])
                ELSE << >>)

\* C6: the store is append-only without de-duplication: a load (fetch, file
\* or pasted text) that completes with parsed events P leaves the store as
\* it was followed by P, also for a known source name and for uids already
\* stored; no step removes or reorders stored events.
C6_AppendOnlyNoDedup ==
    [][ /\ IsPrefix(events, events')
        /\ (Delivery /\ Resolved(JustDelivered))
              => events' = events \o parseICS(JustDelivered)
        /\ ~(Delivery /\ Resolved(JustDelivered)) => events' = events
        /\ events' = ParsedInOrder(delivered') ]_vars

C6_Witness ==
    \E i, j \in 1..Len(delivered) :
        /\ i < j
        /\ delivered[i].name = delivered[j].name
        /\ delivered[i].resp.body.ics /\ delivered[j].resp.body.ics
        /\ delivered[j].kind # "fetch"
        /\ Len(events) >= 2 * Len(Feed.items)
        /\ \E k, l \in 1..Len(events) :
              k < l /\ events[k].uid = events[l].uid
                    /\ events[k].source = events[l].source

\* C7: the known sources never shrink, and registration is idempotent: a
\* completed load of a known name leaves the collection as it is (no second
\* entry), a completed load of a new name adds exactly that name.
C7_SourcesGrowIdempotent ==
    [][ /\ IsPrefix(sources, sources')
        /\ (Delivery /\ Resolved(JustDelivered)) =>
              IF JustDelivered.name \in Range(sources)
              THEN sources' = sources
              ELSE sources' = Append(sources, JustDelivered.name)
        /\ ~(Delivery /\ Resolved(JustDelivered)) => sources' = sources
        /\ Cardinality(Range(sources')) = Len(sources') ]_vars

C7_Witness ==
    /\ \E i, j \in 1..Len(delivered) :
          /\ i < j
          /\ delivered[i].name = delivered[j].name
          /\ Resolved(delivered[i]) /\ Resolved(delivered[j])
    /\ Len(sources) = Len(DEFAULT_SOURCES)
    /\ Len(delivered) > Len(sources)

\* The delivery orders of a set of pending loads.
Orders(loads) ==
    { o \in [1..Cardinality(loads) -> loads] :
        \A i, j \in 1..Cardinality(loads) : o[i] = o[j] => i = j }

\* The state after the pending loads completed in the order o.
RECURSIVE AfterAll(_, _)
AfterAll(st, o) ==
    IF o = << >> THEN st ELSE AfterAll(Settled(st, Head(o)), Tail(o))

\* C8 as stated: whatever loads are pending, the store, the known-source set
\* and the selected-source set after all of them completed are the same for
\* every order of the completions.
C8_SameStoreInEveryOrder ==
    \A o1, o2 \in Orders(inflight) :
        LET a == AfterAll(Store, o1)
            b == AfterAll(Store, o2)
        IN  /\ a.events = b.events
            /\ Range(a.sources) = Range(b.sources)
            /\ a.selectedSources = b.selectedSources

\* C8, amended: whatever loads are pending, after all of them completed the
\* store holds the same events (the same event objects, each as often), the
\* known-source set and the selected-source set are the same for every order
\* of the completions; the order of the events in the store follows the
\* order of the completions.
C8_SameEventsInEveryOrder ==
    \A o1, o2 \in Orders(inflight) :
        LET a == AfterAll(Store, o1)
            b == AfterAll(Store, o2)
        IN  /\ Range(a.events) = Range(b.events)
            /\ Len(a.events) = Len(b.events)
            /\ Cardinality(Range(a.events)) = Len(a.events)
            /\ Range(a.sources) = Range(b.sources)
            /\ a.selectedSources = b.selectedSources
            /\ a.events = ParsedInOrder(delivered \o o1)

C8_Witness ==
    /\ inflight = {}
    /\ \E i, j \in 1..Len(delivered) :
          /\ i < j
          /\ delivered[i].id > delivered[j].id
          /\ delivered[i].kind = "fetch" /\ delivered[j].kind = "fetch"
          /\ delivered[i].resp.body.ics /\ delivered[j].resp.body.ics
    /\ \E k \in 1..(Len(events) - 1) : events[k].oid[1] > events[k + 1].oid[1]

\* C9: a fetch that fails for source S shows exactly one notification naming
\* S and leaves events, sources and selectedSources as they are; every other
\* pending load stays pending until its own completion and then appends its
\* events, however many fetches fail.
C9_FailureNotifiesOnceAndBlocksNothing ==
    [][ /\ (Delivery /\ Rejected(JustDelivered)) =>
              /\ alerts' = Append(alerts, JustDelivered.name)
              /\ events' = events
              /\ sources' = sources
              /\ selectedSources' = selectedSources
              /\ inflight' = inflight \ { JustDelivered }
        /\ Len(alerts') = Cardinality({ i \in 1..Len(delivered') : Rejected(delivered'[i]) })
        /\ \A load \in inflight :
              load \in inflight' \/ (Delivery /\ JustDelivered = load)
        /\ events' = ParsedInOrder(delivered') ]_vars

C9_Witness ==
    /\ inflight = {}
    /\ \E i, j, k \in 1..Len(delivered) :
          /\ i < j /\ j < k
          /\ Rejected(delivered[i]) /\ Rejected(delivered[j])
          /\ delivered[k].resp.body.ics
    /\ Len(alerts) = 2
    /\ events # << >>

\* C10: a response with a non-success status is handled like a network
\* failure: it is notified with the source's name, and the source is not
\* registered, not selected, and contributes no events.
C10_HttpFailureIsFetchFailure ==
    [][ (/\ Delivery
         /\ JustDelivered.kind = "fetch"
         /\ Resolved(JustDelivered)
         /\ JustDelivered.resp.status \notin 200..299) =>
            /\ alerts' = Append(alerts, JustDelivered.name)
            /\ sources' = sources
            /\ selectedSources' = selectedSources
            /\ events' = events ]_vars

\* C11: in the add-custom-source action, when the first prompt (content or
\* URL) or the second prompt (source name) is cancelled or answered with the
\* empty string, the action ends with events, sources and selectedSources
\* as they were, no load started or completed and no notification shown.
C11_CancelledPromptChangesNothing ==
    [][ (asked'.shown > 0 /\ (asked'.url = "" \/ asked'.name = "")) =>
            /\ events' = events
            /\ sources' = sources
            /\ selectedSources' = selectedSources
            /\ inflight' = inflight
            /\ delivered' = delivered
            /\ alerts' = alerts ]_vars

C11_Witness ==
    /\ asked.shown = 2
    /\ asked.url # ""
    /\ asked.name = ""
    /\ events # << >>
    /\ inflight # {}

----------------------------------------------------------------------------
(* Opening the page with a query string: the location holds parameters the *)
(* write effect wrote for some state of an earlier session.                *)

URLViews == { "list", "month" }

URLTabs == { "events", "about" }

URLTerms == { << >>, << "E" >> }

URLDays == { NoDate, 1 }

URLNavigationDates == { 2, 9 }

URLRanges == { "upcoming", "custom" }

WrittenQueries ==
    { URLParams(v, tab, q, d, d, cd, sel, tags, range) :
        v \in URLViews, tab \in URLTabs, q \in URLTerms, d \in URLDays,
        cd \in URLNavigationDates, sel \in SUBSET Range(DEFAULT_SOURCES),
        tags \in { {}, PRESET_TAGS }, range \in URLRanges }

InitURL ==
    /\ href \in WrittenQueries
    /\ search = href
    /\ events = << >>
    /\ sources = << >>
    /\ selectedSources = {}
    /\ focusedSource = Null
    /\ searchTerm = << >>
    /\ selectedTags = {}
    /\ dateFilter = "upcoming"
    /\ customStartDate = NoDate
    /\ customEndDate = NoDate
    /\ now = 5
    /\ tzOffset = 1
    /\ filteredEvents = << >>
    /\ refiltered = << >>
    /\ inflight = {}
    /\ alerts = << >>
    /\ delivered = << >>
    /\ userLoads = 0
    /\ pc = "unmounted"
    /\ asked = NoPrompt
    /\ view = "list"
    /\ activeTab = "events"
    /\ currentDate = now
    /\ icsEvent = Null
    /\ icsText = << >>
    /\ icsParsed = << >>
    /\ colorName = << >>
    /\ colorResult = NullValue
    /\ selectedEvent = NullValue
    /\ selectedEventIndex = NullValue
    /\ ignoreClickClose = FALSE
    /\ pressed = Null

NextURL ==
    \/ Mount
    \/ Settle

SpecURL == InitURL /\ [][NextURL]_vars

\* C12: when the page is opened with a query string that the write effect
\* wrote for some state, then once the mount effects have run and every
\* default source load has completed, the view, the tab, the search text,
\* the custom start and end, the navigation date, the selected sources, the
\* selected tags and the date range each have the value that query string
\* encodes.
C12_OpenedQueryIsRestored ==
    (pc = "mounted" /\ inflight = {}) =>
        /\ view = href.view
        /\ activeTab = href.tab
        /\ searchTerm = href.q
        /\ customStartDate = href.start
        /\ customEndDate = href.end
        /\ currentDate = ParseDateOnly(href.date)
        /\ selectedSources = href.src
        /\ selectedTags = href.tags
        /\ dateFilter = href.range

----------------------------------------------------------------------------
(* Claims about the selection of sources, under SpecSelect *)

\* A load that succeeded: the file was read, or the fetch was answered with
\* a success status.
Succeeded(load) ==
    /\ Resolved(load)
    /\ load.kind = "fetch" => load.resp.status \in 200..299

SucceededNames(loads) ==
    { loads[i].name : i \in { k \in 1..Len(loads) : Succeeded(loads[k]) } }

\* C13: selection is explicit opt-in.  A name enters selectedSources only by
\* the completion of a successful load of that source, by a toggle or by a
\* double-click; the completion of a load of S adds S and leaves every other
\* source selected or unselected as it was; and as long as the user has not
\* changed the selection, it is the set of the sources loaded so far (so it
\* is the set of loaded sources when all default loads have completed).
C13_SelectionIsOptIn ==
    [][ /\ Delivery =>
              /\ selectedSources' \ selectedSources \subseteq { JustDelivered.name }
              /\ selectedSources \subseteq selectedSources'
              /\ Succeeded(JustDelivered) => JustDelivered.name \in selectedSources'
              /\ ~Succeeded(JustDelivered) => selectedSources' = selectedSources
        /\ (Delivery /\ selectedSources = SucceededNames(delivered)) =>
              selectedSources' = SucceededNames(delivered')
        /\ (pc = "unmounted") => selectedSources' = selectedSources ]_vars

----------------------------------------------------------------------------
(* The search and tag stages on stores of events with text drawn from small *)
(* sets; every source is selected and the date mode is 'all'.               *)

TextSummaries ==
    { << "E", "B", "S", " ", "x" >>, << "e", "b", "s" >>,
      << "x", "C", "H", "E", "s" >>, << "c", "h", "e" >> }

TextDescriptions == { << >>, << "E", "B", "S" >> }

TextTerms ==
    { << >>, << " ", " " >>, << " ", "E", "b", "s", " " >>, << "e", "x" >> }

TextTagSets == SUBSET PRESET_TAGS

TextContents == [ summary : TextSummaries, description : TextDescriptions ]

TextStoreOf(f) ==
    [ i \in DOMAIN f |->
        MakeEvent(0, i, "Monash EBS",
                  [ uid |-> "", summary |-> f[i].summary,
                    description |-> f[i].description, start |-> 3 ]) ]

InitText ==
    /\ \E n \in 1..MaxEvents : \E f \in [1..n -> TextContents] :
          events = TextStoreOf(f)
    /\ sources = << "Monash EBS" >>
    /\ selectedSources = { "Monash EBS" }
    /\ focusedSource = Null
    /\ searchTerm \in TextTerms
    /\ selectedTags \in TextTagSets
    /\ dateFilter = "all"
    /\ customStartDate = NoDate
    /\ customEndDate = NoDate
    /\ now = 5
    /\ tzOffset = 1
    /\ filteredEvents = << >>
    /\ refiltered = << >>
    /\ inflight = {}
    /\ alerts = << >>
    /\ delivered = << >>
    /\ userLoads = 0
    /\ pc = "start"
    /\ asked = NoPrompt
    /\ view = "list"
    /\ activeTab = "events"
    /\ currentDate = now
    /\ search = NoQuery
    /\ href = NoQuery
    /\ icsEvent = Null
    /\ icsText = << >>
    /\ icsParsed = << >>
    /\ colorName = << >>
    /\ colorResult = NullValue
    /\ selectedEvent = NullValue
    /\ selectedEventIndex = NullValue
    /\ ignoreClickClose = FALSE
    /\ pressed = Null

SpecText == InitText /\ [][NextFilter]_vars

\* The event object e is in the filtered list.
InResult(e) == \E j \in 1..Len(filteredEvents) : filteredEvents[j].oid = e.oid

\* sub occurs in s, character for character, starting at some position.
OccursIn(sub, s) ==
    \E i \in 1..(Len(s) + 1) :
        \A k \in 1..Len(sub) : i + k - 1 <= Len(s) /\ s[i + k - 1] = sub[k]

Blank(t) == \A i \in 1..Len(t) : t[i] = " "

\* C14: the tag stage.  With no tag selected every event passes it; with
\* tags selected an event passes exactly when its summary contains one of
\* them as a literal, case-sensitive substring: the description is not
\* looked at and the tag may stand inside a word.  (Every source is
\* selected and the date mode is 'all', so an event is in the filtered list
\* exactly when it passes the search stage and the tag stage.)
C14_TagStage ==
    pc # "start" =>
        \A i \in 1..Len(events) :
            InResult(events[i]) <=>
                /\ SearchMatch(events[i], toLowerCase(trim(searchTerm)))
                /\ \/ selectedTags = {}
                   \/ \E tag \in selectedTags : OccursIn(tag, events[i].summary)

C14_Witness ==
    /\ pc = "computed"
    /\ searchTerm = << >>
    /\ selectedTags = PRESET_TAGS
    /\ Len(events) = 2
    /\ Len(filteredEvents) = 1
    /\ filteredEvents[1].summary = << "x", "C", "H", "E", "s" >>
    /\ \E i \in 1..Len(events) :
          /\ ~InResult(events[i])
          /\ events[i].summary = << "e", "b", "s" >>
          /\ events[i].description = << "E", "B", "S" >>

\* C15: the search stage.  A term that is empty or only whitespace lets
\* every event pass; for any other term, every event whose summary or whose
\* description, lower-cased, contains the trimmed lower-cased term passes,
\* whatever the fuzzy test gives.  (Stated for the events that pass the tag
\* stage: those are in the filtered list exactly when they pass the search
\* stage.)
C15_SearchStage ==
    pc # "start" =>
        \A i \in 1..Len(events) :
            TagMatch(events[i], selectedTags) =>
                /\ Blank(searchTerm) => InResult(events[i])
                /\ ( /\ ~Blank(searchTerm)
                     /\ \/ OccursIn(toLowerCase(trim(searchTerm)),
                                     toLowerCase(events[i].summary))
                        \/ OccursIn(toLowerCase(trim(searchTerm)),
                                     toLowerCase(events[i].description)) )
                      => InResult(events[i])

C15_Witness ==
    /\ pc = "computed"
    /\ searchTerm = << " ", "E", "b", "s", " " >>
    /\ selectedTags = {}
    /\ Len(events) = 2
    /\ \E i \in 1..Len(events) :
          /\ InResult(events[i])
          /\ events[i].summary = << "c", "h", "e" >>
          /\ events[i].description = << "E", "B", "S" >>
    /\ \E i \in 1..Len(events) :
          /\ ~InResult(events[i])
          /\ events[i].description = << >>

----------------------------------------------------------------------------
(* The 'custom' date mode for viewers east and west of UTC.                 *)

CustomStarts == 2..10

CustomDays == { NoDate, 1, 2 }

CustomOffsets == { -1, 0, 1 }

CustomStoreOf(f) ==
    [ i \in DOMAIN f |->
        MakeEvent(0, i, "Monash EBS",
                  [ uid |-> "", summary |-> << "c", "h", "e" >>,
                    description |-> << >>, start |-> f[i] ]) ]

InitCustom ==
    /\ \E n \in 1..MaxEvents : \E f \in [1..n -> CustomStarts] :
          events = CustomStoreOf(f)
    /\ sources = << "Monash EBS" >>
    /\ selectedSources = { "Monash EBS" }
    /\ focusedSource = Null
    /\ searchTerm = << >>
    /\ selectedTags = {}
    /\ dateFilter = "custom"
    /\ customStartDate \in CustomDays
    /\ customEndDate \in CustomDays
    /\ now = 5
    /\ tzOffset \in CustomOffsets
    /\ filteredEvents = << >>
    /\ refiltered = << >>
    /\ inflight = {}
    /\ alerts = << >>
    /\ delivered = << >>
    /\ userLoads = 0
    /\ pc = "start"
    /\ asked = NoPrompt
    /\ view = "list"
    /\ activeTab = "events"
    /\ currentDate = now
    /\ search = NoQuery
    /\ href = NoQuery
    /\ icsEvent = Null
    /\ icsText = << >>
    /\ icsParsed = << >>
    /\ colorName = << >>
    /\ colorResult = NullValue
    /\ selectedEvent = NullValue
    /\ selectedEventIndex = NullValue
    /\ ignoreClickClose = FALSE
    /\ pressed = Null

SpecCustom == InitCustom /\ [][NextFilter]_vars

\* The last instant (23:59:59) of the calendar day d on the viewer's clock.
LastInstantOfLocalDay(d, tz) == d * DayLen + (DayLen - 1) - tz

\* C16: in 'custom' mode an event is kept exactly when its start is at or
\* after the beginning of the custom start day (if a start is set; the
\* beginning taken as new Date(customStartDate) gives it) and at or before
\* 23:59:59 local time of the custom end day (if an end is set), whatever
\* the viewer's offset from UTC; with both unset the result is that of mode
\* 'all'.
C16_CustomRange ==
    (pc = "computed" /\ dateFilter = "custom") =>
        /\ \A i \in 1..Len(events) :
              InResult(events[i]) <=>
                  /\ customStartDate # NoDate =>
                        events[i].start >= ParseDateOnly(customStartDate)
                  /\ customEndDate # NoDate =>
                        events[i].start <= LastInstantOfLocalDay(customEndDate, tzOffset)
        /\ (customStartDate = NoDate /\ customEndDate = NoDate) =>
              filteredEvents = ResultInMode("all")

----------------------------------------------------------------------------
(* The calendar of the viewer: days are counted from 1 January 1970 (day 0, *)
(* a Thursday); the years of the model have no leap day.                    *)

MonthLengths == << 31, 28, 31, 30, 31, 30, 31, 31, 30, 31, 30, 31 >>

DaysInYear == 365

\* The number of the local calendar day the instant t falls on.
LocalDay(t, tz) == (t + tz) \div DayLen

RECURSIVE MonthFrom(_, _)
MonthFrom(dayOfYear, m) ==
    IF dayOfYear < MonthLengths[m + 1]
    THEN [ month |-> m, date |-> dayOfYear + 1 ]
    ELSE MonthFrom(dayOfYear - MonthLengths[m + 1], m + 1)

getFullYear(d) == 1970 + d \div DaysInYear

\* Date.prototype.getMonth: 0 for January.
getMonth(d) == MonthFrom(d % DaysInYear, 0).month

getDate(d) == MonthFrom(d % DaysInYear, 0).date

\* Date.prototype.getDay: 0 for Sunday.
getDay(d) == (d + 4) % 7

----------------------------------------------------------------------------
(* Grouping: eventsByDate (App.js:277-287) and groupedListEvents           *)
(* (App.js:289-383), both derived from filteredEvents.                      *)

\* isoDate(d), the text YYYY-MM-DD of a local day, as its three numbers.
isoDate(d) == << getFullYear(d), getMonth(d) + 1, getDate(d) >>

\* getLocalDateKey(date): the key of the local calendar day.
getLocalDateKey(t, tz) == isoDate(LocalDay(t, tz))

Unshift(arr, e) == << e >> \o arr

\* grouped[dateKey].push(event)
Push(arr, e) == Append(arr, e)

RECURSIVE GroupByDate(_, _)
GroupByDate(evs, tz) ==
    IF evs = << >> THEN << >>
    ELSE LET grouped == GroupByDate(SubSeq(evs, 1, Len(evs) - 1), tz)
             event == evs[Len(evs)]
             dateKey == getLocalDateKey(event.start, tz)
         IN  IF dateKey \in DOMAIN grouped
             THEN [ grouped EXCEPT ![dateKey] = Push(@, event) ]
             ELSE grouped @@ (dateKey :> Push(<< >>, event))

eventsByDate == GroupByDate(filteredEvents, tzOffset)

\* null, for currentMonthId, currentWeekId and currentDayId.
NoId == << >>

startOfWeekMonday(d) == d - ((getDay(d) + 6) % 7)

\* startOfWeek(date): the local day d minus its weekday, the Sunday on or
\* before it.
startOfWeek(d) == d - getDay(d)

\* monthId, `${year}-${month}`.
monthIdOf(d) == << getFullYear(d), getMonth(d) + 1 >>

weekIdOfDay(d) == << "week" >> \o monthIdOf(d) \o isoDate(d)

\* weekId, `week-${monthId}-${isoDate(wkStart)}`.
weekIdOf(d) == << "week" >> \o monthIdOf(d) \o isoDate(startOfWeek(d))

dayIdOfWeekStart(d) == << "day" >> \o isoDate(startOfWeek(d))

\* dayId, `day-${isoDate(eventDate)}`.
dayIdOf(d) == << "day" >> \o isoDate(d)

\* eventId: event.id || event.uid || `${source}::${+start}::${summary}`
\* (the events of the parser carry no id).
eventIdOf(event) ==
    IF event.uid # "" THEN << event.uid >>
    ELSE << event.source, event.start, event.summary >>

\* The body of filteredEvents.forEach (lines 311-380) for one event, on the
\* current ids and the groups pushed so far.
ListStep(acc, event, tz) ==
    LET d == LocalDay(event.start, tz)
        monthId == monthIdOf(d)
        wkStart == startOfWeek(d)
        weekId == weekIdOf(d)
        dayId == dayIdOf(d)
        a1 == IF monthId # acc.month
              THEN [ month |-> monthId, week |-> NoId, day |-> NoId,
                     groups |-> Append(acc.groups,
                                   [ type |-> "month", id |-> << "month" >> \o monthId,
                                     date |-> event.start ]) ]
              ELSE acc
        a2 == IF weekId # a1.week
              THEN [ a1 EXCEPT !.week = weekId, !.day = NoId,
                               !.groups = Append(@,
                                   [ type |-> "week", id |-> weekId,
                                     date |-> wkStart * DayLen - tz ]) ]
              ELSE a1
        a3 == IF dayId # a2.day
              THEN [ a2 EXCEPT !.day = dayId,
                               !.groups = Append(@,
                                   [ type |-> "day", id |-> dayId,
                                     date |-> event.start ]) ]
              ELSE a2
    IN  [ a3 EXCEPT !.groups = Append(@,
              [ type |-> "event", id |-> << "event", eventIdOf(event) >>,
                data |-> event ]) ]

RECURSIVE ListWalk(_, _)
ListWalk(evs, tz) ==
    IF evs = << >>
    THEN [ month |-> NoId, week |-> NoId, day |-> NoId, groups |-> << >> ]
    ELSE ListStep(ListWalk(SubSeq(evs, 1, Len(evs) - 1), tz), evs[Len(evs)], tz)

groupedListEvents == ListWalk(filteredEvents, tzOffset).groups

----------------------------------------------------------------------------
(* The grouping of stores whose events lie around the turn of a month, for *)
(* viewers east and west of UTC, with the sources toggled.                 *)

\* 28 March, 30 March, 31 March (twice), 1 April and 5 April 1970 (UTC).
ListStarts == { 345, 353, 357, 359, 360, 378 }

ListOffsets == { -1, 0, 1 }

ListContents == [ source : FilterSources, start : ListStarts ]

ListStoreOf(f) ==
    [ i \in DOMAIN f |->
        MakeEvent(0, i, f[i].source,
                  [ uid |-> "", summary |-> << "c", "h", "e" >>,
                    description |-> << >>, start |-> f[i].start ]) ]

InitList ==
    /\ \E n \in 1..MaxEvents : \E f \in [1..n -> ListContents] :
          /\ events = ListStoreOf(f)
          /\ sources = Dedup([ i \in 1..n |-> f[i].source ])
    /\ selectedSources = Range(sources)
    /\ focusedSource = Null
    /\ searchTerm = << >>
    /\ selectedTags = {}
    /\ dateFilter = "all"
    /\ customStartDate = NoDate
    /\ customEndDate = NoDate
    /\ now = 5
    /\ tzOffset \in ListOffsets
    /\ filteredEvents = << >>
    /\ refiltered = << >>
    /\ inflight = {}
    /\ alerts = << >>
    /\ delivered = << >>
    /\ userLoads = 0
    /\ pc = "start"
    /\ asked = NoPrompt
    /\ view = "list"
    /\ activeTab = "events"
    /\ currentDate = now
    /\ search = NoQuery
    /\ href = NoQuery
    /\ icsEvent = Null
    /\ icsText = << >>
    /\ icsParsed = << >>
    /\ colorName = << >>
    /\ colorResult = NullValue
    /\ selectedEvent = NullValue
    /\ selectedEventIndex = NullValue
    /\ ignoreClickClose = FALSE
    /\ pressed = Null

NextList ==
    \/ ComputeFiltered
    \/ ToggleSource

SpecList == InitList /\ [][NextList]_vars

----------------------------------------------------------------------------
(* Claims about the grouping, under SpecList *)

\* The position in the filtered list of the event object e.
FilteredIndex(e) ==
    CHOOSE j \in 1..Len(filteredEvents) : filteredEvents[j].oid = e.oid

\* The places of bucket k that hold the event object e.
PlacesIn(k, e) ==
    { j \in 1..Len(eventsByDate[k]) : eventsByDate[k][j].oid = e.oid }

\* C17: the by-date mapping.  Every filtered event is in exactly one
\* bucket, once, and that bucket is keyed by the local calendar day of its
\* start; a bucket holds nothing but filtered events and is never empty;
\* within a bucket the events stand in the order of the filtered list.
C17_ByDateBuckets ==
    /\ \A i \in 1..Len(filteredEvents) :
          LET e == filteredEvents[i]
              day == (e.start + tzOffset) \div DayLen
          IN  /\ { k \in DOMAIN eventsByDate : PlacesIn(k, e) # {} }
                    = { << getFullYear(day), getMonth(day) + 1, getDate(day) >> }
              /\ \A k \in DOMAIN eventsByDate : Cardinality(PlacesIn(k, e)) <= 1
    /\ \A k \in DOMAIN eventsByDate :
          /\ eventsByDate[k] # << >>
          /\ \A j \in 1..Len(eventsByDate[k]) : InResult(eventsByDate[k][j])
          /\ \A a, b \in 1..Len(eventsByDate[k]) :
                a < b => FilteredIndex(eventsByDate[k][a])
                           < FilteredIndex(eventsByDate[k][b])

C17_Witness ==
    /\ pc = "computed"
    /\ Len(filteredEvents) = 2
    /\ filteredEvents[1].start \div DayLen # filteredEvents[2].start \div DayLen
    /\ filteredEvents[1].oid[2] > filteredEvents[2].oid[2]
    /\ DOMAIN eventsByDate = { << 1970, 4, 1 >> }
    /\ eventsByDate[<< 1970, 4, 1 >>] = filteredEvents

\* The places of the event records in the list sections g.
EventPositions(g) == { p \in 1..Len(g) : g[p].type = "event" }

\* The place of the i-th event record of g (0 for i = 0).
PositionOfEvent(g, i) ==
    IF i = 0 THEN 0
    ELSE CHOOSE p \in EventPositions(g) :
             Cardinality({ q \in EventPositions(g) : q <= p }) = i

\* The markers of one granularity emitted between the event records i - 1
\* and i of g.
MarkersBefore(g, i, type) ==
    { q \in (PositionOfEvent(g, i - 1) + 1)..(PositionOfEvent(g, i) - 1) :
        g[q].type = type }

\* The local calendar day of the i-th filtered event.
DayOfFiltered(i) == (filteredEvents[i].start + tzOffset) \div DayLen

SundayOnOrBefore(d) == CHOOSE s \in (d - 6)..d : getDay(s) = 0

SameMonth(d1, d2) ==
    getFullYear(d1) = getFullYear(d2) /\ getMonth(d1) = getMonth(d2)

SameWeek(d1, d2) == SundayOnOrBefore(d1) = SundayOnOrBefore(d2)

\* C18 as stated: walking the filtered list, a month marker is emitted
\* exactly when the month of the event differs from that of the event
\* before it, a week marker exactly when its Sunday-start week differs and
\* a day marker exactly when its day differs (the first event emits all
\* three); no granularity gets more than one marker per transition, and an
\* event on the day of the event before it emits none.
C18_MarkerExactlyWhenUnitDiffers ==
    LET g == groupedListEvents
    IN  /\ Cardinality(EventPositions(g)) = Len(filteredEvents)
        /\ \A i \in 1..Len(filteredEvents) :
              /\ MarkersBefore(g, i, "month") # {} <=>
                    (IF i = 1 THEN TRUE
                     ELSE ~SameMonth(DayOfFiltered(i), DayOfFiltered(i - 1)))
              /\ MarkersBefore(g, i, "week") # {} <=>
                    (IF i = 1 THEN TRUE
                     ELSE ~SameWeek(DayOfFiltered(i), DayOfFiltered(i - 1)))
              /\ MarkersBefore(g, i, "day") # {} <=>
                    (IF i = 1 THEN TRUE
                     ELSE DayOfFiltered(i) # DayOfFiltered(i - 1))
              /\ \A type \in { "month", "week", "day" } :
                    Cardinality(MarkersBefore(g, i, type)) <= 1

\* C18, amended: a month marker is emitted exactly when the month differs,
\* a week marker exactly when the Sunday-start week or the month differs (a
\* week that spans the turn of a month is announced again under the new
\* month), and a day marker exactly when the day differs (the first event
\* emits all three); no granularity gets more than one marker per
\* transition, the markers of a transition come in the order month, week,
\* day, and an event on the day of the event before it emits none.
C18_MarkerWhenUnitOrMonthDiffers ==
    LET g == groupedListEvents
    IN  /\ Cardinality(EventPositions(g)) = Len(filteredEvents)
        /\ \A i \in 1..Len(filteredEvents) :
              /\ MarkersBefore(g, i, "month") # {} <=>
                    (IF i = 1 THEN TRUE
                     ELSE ~SameMonth(DayOfFiltered(i), DayOfFiltered(i - 1)))
              /\ MarkersBefore(g, i, "week") # {} <=>
                    (IF i = 1 THEN TRUE
                     ELSE \/ ~SameWeek(DayOfFiltered(i), DayOfFiltered(i - 1))
                          \/ ~SameMonth(DayOfFiltered(i), DayOfFiltered(i - 1)))
              /\ MarkersBefore(g, i, "day") # {} <=>
                    (IF i = 1 THEN TRUE
                     ELSE DayOfFiltered(i) # DayOfFiltered(i - 1))
              /\ \A type \in { "month", "week", "day" } :
                    Cardinality(MarkersBefore(g, i, type)) <= 1
              /\ \A m \in MarkersBefore(g, i, "month") :
                    \A w \in MarkersBefore(g, i, "week") : m < w
              /\ \A w \in MarkersBefore(g, i, "week") :
                    \A d \in MarkersBefore(g, i, "day") : w < d
              /\ (PositionOfEvent(g, i) = PositionOfEvent(g, i - 1) + 1) <=>
                    (IF i = 1 THEN FALSE
                     ELSE DayOfFiltered(i) = DayOfFiltered(i - 1))

C18_Witness ==
    /\ pc = "computed"
    /\ Len(filteredEvents) = 2
    /\ SameWeek(DayOfFiltered(1), DayOfFiltered(2))
    /\ ~SameMonth(DayOfFiltered(1), DayOfFiltered(2))
    /\ Len(groupedListEvents) = 8
    /\ Cardinality(MarkersBefore(groupedListEvents, 2, "week")) = 1

\* The calendar unit a marker denotes: the month of its date, the week that
\* starts at its date, the day of its date.
UnitOf(marker) ==
    CASE marker.type = "month" -> monthIdOf(LocalDay(marker.date, tzOffset))
      [] marker.type = "week" -> << marker.date >>
      [] marker.type = "day" -> << LocalDay(marker.date, tzOffset) >>

\* C19 as stated: the id of a month, week or day marker is a function of
\* the calendar unit it denotes alone: two markers of one granularity that
\* denote the same unit carry the same id.
C19_IdIsFunctionOfUnit ==
    LET g == groupedListEvents
    IN  \A a, b \in 1..Len(g) :
            ( /\ g[a].type # "event"
              /\ g[a].type = g[b].type
              /\ UnitOf(g[a]) = UnitOf(g[b]) ) => g[a].id = g[b].id

\* The id of the marker of one granularity that stands nearest before
\* place p of the list sections g (null when there is none).
GoverningId(g, p, type) ==
    LET before == { q \in 1..(p - 1) : g[q].type = type }
    IN  IF before = {} THEN NoId
        ELSE g[CHOOSE q \in before : \A r \in before : r <= q].id

\* The ids of the month, week and day sections the event object e stands in.
SectionIds(g, e) ==
    LET p == CHOOSE q \in 1..Len(g) : g[q].type = "event" /\ g[q].data.oid = e.oid
    IN  << GoverningId(g, p, "month"), GoverningId(g, p, "week"),
           GoverningId(g, p, "day") >>

\* The ids of the sections of the local day d, from the calendar alone.
CalendarIds(d) ==
    LET s == SundayOnOrBefore(d)
    IN  << << "month", getFullYear(d), getMonth(d) + 1 >>,
           << "week", getFullYear(d), getMonth(d) + 1,
              getFullYear(s), getMonth(s) + 1, getDate(s) >>,
           << "day", getFullYear(d), getMonth(d) + 1, getDate(d) >> >>

\* The filtered list with some of its events removed.
Sublists(evs) == { KeepMasked(evs, mask) : mask \in [1..Len(evs) -> BOOLEAN] }

\* C19, amended: marker ids are stable and deterministic.  The id of a month
\* or day marker is a function of that month or day alone, the id of a week
\* marker is a function of the week together with the month it is shown
\* under (a week that spans the turn of a month has one id per month); no id
\* depends on the place of the marker or on the other events present.  So
\* the sections of every event carry the ids its local day gives, every
\* marker is the section of some event, and the derivation run on the list
\* with any of the other events removed (the filtered list seen the other
\* way round: with events added) gives the sections of the events that stay
\* the same ids.
C19_MarkerIdsStable ==
    LET g == groupedListEvents
    IN  /\ \A i \in 1..Len(filteredEvents) :
              SectionIds(g, filteredEvents[i]) = CalendarIds(DayOfFiltered(i))
        /\ \A q \in 1..Len(g) :
              g[q].type # "event" =>
                  \E i \in 1..Len(filteredEvents) : \E k \in 1..3 :
                      SectionIds(g, filteredEvents[i])[k] = g[q].id
        /\ \A sub \in Sublists(filteredEvents) :
              LET h == ListWalk(sub, tzOffset).groups
              IN  \A j \in 1..Len(sub) :
                      SectionIds(h, sub[j]) = SectionIds(g, sub[j])

C19_Witness ==
    /\ pc = "computed"
    /\ Len(events) = 2
    /\ Len(filteredEvents) = 1
    /\ Len(groupedListEvents) = 4
    /\ \E i \in 1..Len(events) :
          /\ ~InResult(events[i])
          /\ LocalDay(events[i].start, tzOffset) < DayOfFiltered(1)
          /\ SameWeek(LocalDay(events[i].start, tzOffset), DayOfFiltered(1))
          /\ SameMonth(LocalDay(events[i].start, tzOffset), DayOfFiltered(1))

----------------------------------------------------------------------------
(* Exporting one event: generateICS (utils/colorUtils.js:45-72), and the   *)
(* parser reading the text back.  Text is a sequence of characters; a       *)
(* keyword of the format ("BEGIN:VEVENT", "SUMMARY", ...) is one character  *)
(* of the model.  A timestamp is written as the decimal digits of its tick  *)
(* count (the events of the parser carry no milliseconds, so split('.')     *)
(* drops nothing).                                                          *)

ICSMaxLen == 2

ICSChars == { "a", "n", "\\", ",", ";", "\n" }

Digit(k) ==
    CASE k = 0 -> "0" [] k = 1 -> "1" [] k = 2 -> "2" [] k = 3 -> "3"
      [] k = 4 -> "4" [] k = 5 -> "5" [] k = 6 -> "6" [] k = 7 -> "7"
      [] k = 8 -> "8" [] k = 9 -> "9"

RECURSIVE Digits(_)
Digits(n) ==
    IF n < 10 THEN << Digit(n) >> ELSE Append(Digits(n \div 10), Digit(n % 10))

DigitValue(c) == CHOOSE k \in 0..9 : Digit(k) = c

RECURSIVE Number(_)
Number(ds) ==
    IF ds = << >> THEN 0
    ELSE Number(SubSeq(ds, 1, Len(ds) - 1)) * 10 + DigitValue(ds[Len(ds)])

\* formatICSDate: the UTC date and time of day, suffixed Z.
formatICSDate(date) == Digits(date) \o << "Z" >>

RECURSIVE escapeSpecialsNoSemicolon(_)
escapeSpecialsNoSemicolon(str) ==
    IF str = << >> THEN << >>
    ELSE (IF Head(str) \in { "\\", "," } THEN << "\\", Head(str) >>
          ELSE << Head(str) >>) \o escapeSpecialsNoSemicolon(Tail(str))

\* str.replace(/[\\,;]/g, '\\$&')
RECURSIVE escapeSpecials(_)
escapeSpecials(str) ==
    IF str = << >> THEN << >>
    ELSE (IF Head(str) \in { "\\", ",", ";" } THEN << "\\", Head(str) >>
          ELSE << Head(str) >>) \o escapeSpecials(Tail(str))

\* str.replace(/\n/g, '\\n')
RECURSIVE escapeNewlines(_)
escapeNewlines(str) ==
    IF str = << >> THEN << >>
    ELSE (IF Head(str) = "\n" THEN << "\\", "n" >> ELSE << Head(str) >>)
            \o escapeNewlines(Tail(str))

escapeNewlinesFirst(str) == escapeSpecials(escapeNewlines(str))

escape(str) == escapeNewlines(escapeSpecials(str))

\* lines.join('\r\n')
RECURSIVE joinLines(_)
joinLines(lines) ==
    IF lines = << >> THEN << >>
    ELSE IF Len(lines) = 1 THEN lines[1]
    ELSE lines[1] \o << "\r", "\n" >> \o joinLines(Tail(lines))

\* generateICS(event), called at the time t.
generateICS(event, t) ==
    LET lines ==
            << << "BEGIN:VCALENDAR" >>,
               << "VERSION:2.0" >>,
               << "PRODID:-//Melbourne Econ Seminars//EN" >>,
               << "CALSCALE:GREGORIAN" >>,
               << "BEGIN:VEVENT" >>,
               << "UID", ":" >> \o (IF event.uid # "" THEN << event.uid >>
                                   ELSE Digits(t) \o << "@melb-econ-seminars" >>),
               << "DTSTAMP", ":" >> \o formatICSDate(t),
               << "DTSTART", ":" >> \o formatICSDate(event.start),
               IF event.end # NoDate
               THEN << "DTEND", ":" >> \o formatICSDate(event.end) ELSE << >>,
               << "SUMMARY", ":" >> \o escape(event.summary),
               IF event.description # << >>
               THEN << "DESCRIPTION", ":" >> \o escape(event.description) ELSE << >>,
               IF event.location # << >>
               THEN << "LOCATION", ":" >> \o escape(event.location) ELSE << >>,
               << "END:VEVENT" >>,
               << "END:VCALENDAR" >> >>
    IN  joinLines(SelectSeq(lines, LAMBDA line : line # << >>))

\* The parser (utils/icsParser.js), by its contract.  Physical lines end at
\* a line feed, with or without a carriage return before it.
RECURSIVE splitLines(_)
splitLines(text) ==
    IF \A i \in 1..Len(text) : text[i] # "\n" THEN << text >>
    ELSE LET i == CHOOSE k \in 1..Len(text) :
                      text[k] = "\n" /\ \A j \in 1..(k - 1) : text[j] # "\n"
             line == SubSeq(text, 1, i - 1)
         IN  << (IF line # << >> /\ line[Len(line)] = "\r"
                 THEN SubSeq(line, 1, Len(line) - 1) ELSE line) >>
                \o splitLines(SubSeq(text, i + 1, Len(text)))

\* A line that begins with a space or a tab continues the line before it.
RECURSIVE unfold(_)
unfold(lines) ==
    IF lines = << >> THEN << >>
    ELSE LET init == unfold(SubSeq(lines, 1, Len(lines) - 1))
             last == lines[Len(lines)]
         IN  IF last # << >> /\ last[1] \in { " ", "\t" } /\ init # << >>
             THEN [ init EXCEPT ![Len(init)] = @ \o Tail(last) ]
             ELSE Append(init, last)

\* \n gives a newline, \, a comma, \; a semicolon and \\ a backslash, read
\* from left to right.
RECURSIVE unescape(_)
unescape(value) ==
    IF value = << >> THEN << >>
    ELSE IF Head(value) = "\\" /\ Len(value) >= 2
    THEN (CASE value[2] = "n" -> << "\n" >>
            [] value[2] \in { ",", ";", "\\" } -> << value[2] >>
            [] OTHER -> << "\\", value[2] >>)
            \o unescape(SubSeq(value, 3, Len(value)))
    ELSE << Head(value) >> \o unescape(Tail(value))

\* YYYYMMDDTHHMMSS with the suffix Z is UTC, without it the viewer's time.
parseICSDate(value, tz) ==
    IF value[Len(value)] = "Z"
    THEN Number(SubSeq(value, 1, Len(value) - 1))
    ELSE Number(value) - tz

\* The name of a content line (its parameters stripped) and its value.
PropertyName(line) ==
    LET stop == { i \in 1..Len(line) : line[i] \in { ":", ";" } }
    IN  IF stop = {} THEN line
        ELSE SubSeq(line, 1, (CHOOSE i \in stop : \A j \in stop : i <= j) - 1)

PropertyValue(line) ==
    LET colons == { i \in 1..Len(line) : line[i] = ":" }
    IN  IF colons = {} THEN << >>
        ELSE SubSeq(line, (CHOOSE i \in colons : \A j \in colons : i <= j) + 1,
                    Len(line))

\* The lines of a VEVENT block read into an Event; no Event when SUMMARY or
\* DTSTART is missing.
RECURSIVE ReadBlock(_, _, _)
ReadBlock(block, ev, tz) ==
    IF block = << >> THEN ev
    ELSE LET line == Head(block)
             name == PropertyName(line)
             value == PropertyValue(line)
             next ==
                 CASE name = << "UID" >> -> [ ev EXCEPT !.uid = value ]
                   [] name = << "SUMMARY" >> ->
                        [ ev EXCEPT !.summary = unescape(value), !.hasSummary = TRUE ]
                   [] name = << "DESCRIPTION" >> ->
                        [ ev EXCEPT !.description = unescape(value) ]
                   [] name = << "LOCATION" >> ->
                        [ ev EXCEPT !.location = unescape(value) ]
                   [] name = << "DTSTART" >> ->
                        [ ev EXCEPT !.start = parseICSDate(value, tz) ]
                   [] name = << "DTEND" >> ->
                        [ ev EXCEPT !.end = parseICSDate(value, tz) ]
                   [] OTHER -> ev
         IN  ReadBlock(Tail(block), next, tz)

RECURSIVE ReadBlocks(_, _, _)
ReadBlocks(lines, sourceName, tz) ==
    LET begins == { i \in 1..Len(lines) : lines[i] = << "BEGIN:VEVENT" >> }
    IN  IF begins = {} THEN << >>
        ELSE LET b == CHOOSE i \in begins : \A j \in begins : i <= j
                 ends == { i \in (b + 1)..Len(lines) : lines[i] = << "END:VEVENT" >> }
             IN  IF ends = {} THEN << >>
                 ELSE LET e == CHOOSE i \in ends : \A j \in ends : i <= j
                          ev == ReadBlock(SubSeq(lines, b + 1, e - 1),
                                    [ uid |-> << >>, source |-> sourceName,
                                      summary |-> << >>, hasSummary |-> FALSE,
                                      description |-> << >>, location |-> << >>,
                                      start |-> NoDate, end |-> NoDate ], tz)
                      IN  (IF ev.hasSummary /\ ev.start # NoDate
                           THEN << ev >> ELSE << >>)
                             \o ReadBlocks(SubSeq(lines, e + 1, Len(lines)),
                                           sourceName, tz)

\* parseICS(content, sourceName) on text.
parseICSContent(content, sourceName, tz) ==
    ReadBlocks(unfold(splitLines(content)), sourceName, tz)

----------------------------------------------------------------------------
(* An event is exported and the text is read back.                         *)

RECURSIVE TextsUpTo(_)
TextsUpTo(n) ==
    IF n = 0 THEN { << >> }
    ELSE LET shorter == TextsUpTo(n - 1)
         IN  shorter \cup { Append(t, c) : t \in shorter, c \in ICSChars }

ICSSummaries == TextsUpTo(ICSMaxLen) \ { << >> }

ICSDescriptions ==
    { << >>, << "\\", "n" >>, << "\n", " ", "a" >>, << "\\", "\\", ";" >>,
      << "a", ",", "\n" >> }

ICSLocations == { << >>, << "a", ";", "\\" >> }

ICSStarts == { 7, 12 }

ICSEnds == { NoDate, 13 }

ICSEvents ==
    [ uid : { "", "u1" }, source : { "Monash EBS" }, summary : ICSSummaries,
      description : ICSDescriptions, location : ICSLocations,
      start : ICSStarts, end : ICSEnds ]

InitICS ==
    /\ icsEvent \in ICSEvents
    /\ icsText = << >>
    /\ icsParsed = << >>
    /\ colorName = << >>
    /\ colorResult = NullValue
    /\ selectedEvent = NullValue
    /\ selectedEventIndex = NullValue
    /\ ignoreClickClose = FALSE
    /\ pressed = Null
    /\ events = << >>
    /\ sources = << >>
    /\ selectedSources = {}
    /\ focusedSource = Null
    /\ searchTerm = << >>
    /\ selectedTags = {}
    /\ dateFilter = "upcoming"
    /\ customStartDate = NoDate
    /\ customEndDate = NoDate
    /\ now = 15
    /\ tzOffset \in { -1, 1 }
    /\ filteredEvents = << >>
    /\ refiltered = << >>
    /\ inflight = {}
    /\ alerts = << >>
    /\ delivered = << >>
    /\ userLoads = 0
    /\ pc = "start"
    /\ asked = NoPrompt
    /\ view = "list"
    /\ activeTab = "events"
    /\ currentDate = now
    /\ search = NoQuery
    /\ href = NoQuery

\* downloadICS(event) (lines 74-76): the text is generated.
GenerateICS ==
    /\ pc = "start"
    /\ icsText' = generateICS(icsEvent, now)
    /\ pc' = "generated"
    /\ UNCHANGED << events, sources, selectedSources, focusedSource, searchTerm,
                    selectedTags, dateFilter, customStartDate, customEndDate,
                    now, tzOffset, filteredEvents, refiltered, inflight, alerts,
                    delivered, userLoads, asked, urlVars, icsEvent, icsParsed,
                    colorVars, modalVars >>

\* The generated text is parsed again.
ReparseICS ==
    /\ pc = "generated"
    /\ icsParsed' = parseICSContent(icsText, icsEvent.source, tzOffset)
    /\ pc' = "parsed"
    /\ UNCHANGED << events, sources, selectedSources, focusedSource, searchTerm,
                    selectedTags, dateFilter, customStartDate, customEndDate,
                    now, tzOffset, filteredEvents, refiltered, inflight, alerts,
                    delivered, userLoads, asked, urlVars, icsEvent, icsText,
                    colorVars, modalVars >>

NextICS ==
    \/ GenerateICS
    \/ ReparseICS

SpecICS == InitICS /\ [][NextICS]_vars

\* C20: round trip.  The text generateICS produces for an Event, read back
\* by the parser (lines unfolded, \n, \, \; and \\ unescaped), gives exactly
\* one Event, with the summary, start, end, location and description of the
\* Event exported, also when those texts hold backslashes, commas,
\* semicolons, newlines or a backslash followed by the letter n.
C20_ExportRoundTrip ==
    pc = "parsed" =>
        /\ Len(icsParsed) = 1
        /\ icsParsed[1].summary = icsEvent.summary
        /\ icsParsed[1].start = icsEvent.start
        /\ icsParsed[1].end = icsEvent.end
        /\ icsParsed[1].location = icsEvent.location
        /\ icsParsed[1].description = icsEvent.description

C20_Witness ==
    /\ pc = "parsed"
    /\ icsEvent.description = << "\\", "n" >>
    /\ icsEvent.summary = << "\n", "\\" >>
    /\ icsEvent.location = << "a", ";", "\\" >>
    /\ icsEvent.end # NoDate
    /\ Len(icsParsed) = 1
    /\ icsParsed[1].description = << "\\", "n" >>

----------------------------------------------------------------------------
(* The shape of the exported document.                                      *)

\* The indices of the lines of a document that carry the property name.
LinesNamed(lines, name) ==
    { i \in 1..Len(lines) :
        Len(lines[i]) >= 2 /\ lines[i][1] = name /\ lines[i][2] = ":" }

LinesEqual(lines, line) == { i \in 1..Len(lines) : lines[i] = line }

\* The value written on the only line of that name.
ValueNamed(lines, name) ==
    LET i == CHOOSE k \in LinesNamed(lines, name) : TRUE
    IN  SubSeq(lines[i], 3, Len(lines[i]))

\* A text written character by character: a backslash before each
\* backslash, comma and semicolon, and backslash-n for each newline.
RECURSIVE WrittenText(_)
WrittenText(field) ==
    IF field = << >> THEN << >>
    ELSE (CASE Head(field) \in { "\\", ",", ";" } -> << "\\", Head(field) >>
            [] Head(field) = "\n" -> << "\\", "n" >>
            [] OTHER -> << Head(field) >>) \o WrittenText(Tail(field))

\* C21: the document generateICS produces has exactly one
\* BEGIN:VEVENT/END:VEVENT pair inside BEGIN:VCALENDAR/END:VCALENDAR, a
\* product identifier, a generation timestamp, a DTSTART and a SUMMARY line
\* always, and a DTEND, DESCRIPTION or LOCATION line exactly when the event
\* has that field; every text value is written with a backslash before each
\* backslash, comma and semicolon and with backslash-n for each newline.
C21_DocumentShape ==
    pc \in { "generated", "parsed" } =>
        LET lines == splitLines(icsText)
            one(name) == Cardinality(LinesNamed(lines, name)) = 1
            none(name) == LinesNamed(lines, name) = {}
            inEvent(name) ==
                \A i \in LinesNamed(lines, name) :
                    /\ \A b \in LinesEqual(lines, << "BEGIN:VEVENT" >>) : b < i
                    /\ \A e \in LinesEqual(lines, << "END:VEVENT" >>) : i < e
        IN  /\ LinesEqual(lines, << "BEGIN:VCALENDAR" >>) = { 1 }
            /\ LinesEqual(lines, << "END:VCALENDAR" >>) = { Len(lines) }
            /\ Cardinality(LinesEqual(lines, << "BEGIN:VEVENT" >>)) = 1
            /\ Cardinality(LinesEqual(lines, << "END:VEVENT" >>)) = 1
            /\ \A b \in LinesEqual(lines, << "BEGIN:VEVENT" >>) :
                 \A e \in LinesEqual(lines, << "END:VEVENT" >>) :
                    1 < b /\ b < e /\ e < Len(lines)
            /\ Cardinality(LinesEqual(lines,
                    << "PRODID:-//Melbourne Econ Seminars//EN" >>)) = 1
            /\ one("DTSTAMP") /\ ValueNamed(lines, "DTSTAMP") = formatICSDate(now)
            /\ one("DTSTART") /\ inEvent("DTSTART")
            /\ ValueNamed(lines, "DTSTART") = formatICSDate(icsEvent.start)
            /\ one("SUMMARY") /\ inEvent("SUMMARY")
            /\ ValueNamed(lines, "SUMMARY") = WrittenText(icsEvent.summary)
            /\ IF icsEvent.end # NoDate
               THEN /\ one("DTEND") /\ inEvent("DTEND")
                    /\ ValueNamed(lines, "DTEND") = formatICSDate(icsEvent.end)
               ELSE none("DTEND")
            /\ IF icsEvent.description # << >>
               THEN /\ one("DESCRIPTION") /\ inEvent("DESCRIPTION")
                    /\ ValueNamed(lines, "DESCRIPTION")
                          = WrittenText(icsEvent.description)
               ELSE none("DESCRIPTION")
            /\ IF icsEvent.location # << >>
               THEN /\ one("LOCATION") /\ inEvent("LOCATION")
                    /\ ValueNamed(lines, "LOCATION") = WrittenText(icsEvent.location)
               ELSE none("LOCATION")
            /\ \A i \in 1..Len(icsText) :
                 icsText[i] = "\n" => i > 1 /\ icsText[i - 1] = "\r"

C21_Witness ==
    /\ pc = "generated"
    /\ icsEvent.end = NoDate
    /\ icsEvent.description = << >>
    /\ icsEvent.location = << "a", ";", "\\" >>
    /\ icsEvent.summary = << ",", "\n" >>
    /\ LinesNamed(splitLines(icsText), "DESCRIPTION") = {}
    /\ Cardinality(LinesNamed(splitLines(icsText), "LOCATION")) = 1

----------------------------------------------------------------------------
(* getSourceColor (utils/colorUtils.js:4-41).                               *)

ColorMaxLen == 3

\* Object.keys(PALETTE)
PaletteKeys ==
    << "blue", "green", "purple", "orange", "pink", "indigo", "red", "teal" >>

\* The names and the colors of the configured sources (constants.js), the
\* two sources DEFAULT_SOURCES keeps in the model.
ConfiguredColors ==
    << [ name |-> << "M", "o", "n", "a", "s", "h", " ", "E", "B", "S" >>,
         color |-> "blue" ],
       [ name |-> << "M", "o", "n", "a", "s", "h", " ", "E", "c", "o", "n" >>,
         color |-> "orange" ] >>

\* String.prototype.charCodeAt
charCode(c) ==
    CASE c = " " -> 32 [] c = "B" -> 66 [] c = "E" -> 69 [] c = "M" -> 77
      [] c = "S" -> 83 [] c = "Z" -> 90 [] c = "a" -> 97 [] c = "b" -> 98
      [] c = "c" -> 99 [] c = "e" -> 101 [] c = "h" -> 104 [] c = "m" -> 109
      [] c = "n" -> 110 [] c = "o" -> 111 [] c = "s" -> 115 [] c = "z" -> 122
      [] c = "~" -> 126

\* A 32-bit integer, as its two 16-bit halves.
Half == 65536

Int32(n) == [ hi |-> (n \div Half) % Half, lo |-> n % Half ]

\* hash = ((hash << 5) - hash) + code; hash |= 0
HashStep(hash, code) ==
    LET low == hash.lo * 31 + code
    IN  [ hi |-> (hash.hi * 31 + (low \div Half)) % Half, lo |-> low % Half ]

RECURSIVE HashOf(_)
HashOf(name) ==
    IF name = << >> THEN Int32(0)
    ELSE HashStep(HashOf(SubSeq(name, 1, Len(name) - 1)),
                  charCode(name[Len(name)]))

Returned(entry) == [ kind |-> "returned", entry |-> entry ]

Thrown(error, hash) == [ kind |-> "thrown", error |-> error, hash |-> hash ]

\* getSourceColor(source) for a source given by its name.  The identifier
\* colorKeys of lines 39-40 is declared nowhere: reading it throws.
getSourceColor(name) ==
    IF name = << >> THEN Returned("blue")
    ELSE LET matches == { i \in 1..Len(ConfiguredColors) :
                            toLowerCase(ConfiguredColors[i].name)
                                = toLowerCase(name) }
         IN  IF matches # {}
                /\ \E k \in 1..Len(PaletteKeys) :
                     PaletteKeys[k] = ConfiguredColors[
                        CHOOSE i \in matches : \A j \in matches : i <= j].color
             THEN Returned(ConfiguredColors[
                        CHOOSE i \in matches : \A j \in matches : i <= j].color)
             ELSE Thrown("ReferenceError", HashOf(name))

ColorChars == { "a", "Z", "~", "z" }

RECURSIVE ColorTextsUpTo(_)
ColorTextsUpTo(n) ==
    IF n = 0 THEN { << >> }
    ELSE LET shorter == ColorTextsUpTo(n - 1)
         IN  shorter \cup { Append(t, c) : t \in shorter, c \in ColorChars }

\* Names of configured sources, in the case of the configuration and in
\* another one, and names of sources the user added; the longer ones take
\* the hash beyond 32 bits.
ColorNames ==
    ColorTextsUpTo(ColorMaxLen)
        \cup { ConfiguredColors[i].name : i \in 1..Len(ConfiguredColors) }
        \cup { toLowerCase(ConfiguredColors[i].name) :
                    i \in 1..Len(ConfiguredColors) }
        \cup { << "z", "z", "z", "z", "z", "z", "z" >>,
               << "~", "~", "~", "~", "~", "~" >>,
               << "M", "o", "n", "a", "s", "h", " ", "c", "h", "e" >> }

InitColor ==
    /\ colorName \in ColorNames
    /\ colorResult = NullValue
    /\ pc = "start"
    /\ events = << >>
    /\ sources = << >>
    /\ selectedSources = {}
    /\ focusedSource = Null
    /\ searchTerm = << >>
    /\ selectedTags = {}
    /\ dateFilter = "upcoming"
    /\ customStartDate = NoDate
    /\ customEndDate = NoDate
    /\ now = 5
    /\ tzOffset = 1
    /\ filteredEvents = << >>
    /\ refiltered = << >>
    /\ inflight = {}
    /\ alerts = << >>
    /\ delivered = << >>
    /\ userLoads = 0
    /\ asked = NoPrompt
    /\ view = "list"
    /\ activeTab = "events"
    /\ currentDate = now
    /\ search = NoQuery
    /\ href = NoQuery
    /\ icsEvent = Null
    /\ icsText = << >>
    /\ icsParsed = << >>
    /\ selectedEvent = NullValue
    /\ selectedEventIndex = NullValue
    /\ ignoreClickClose = FALSE
    /\ pressed = Null

\* A component (ListView, WeekView, EventModal) asks for the color of the
\* source of an event.
CallGetSourceColor ==
    /\ pc = "start"
    /\ colorResult' = getSourceColor(colorName)
    /\ pc' = "called"
    /\ UNCHANGED << events, sources, selectedSources, focusedSource, searchTerm,
                    selectedTags, dateFilter, customStartDate, customEndDate,
                    now, tzOffset, filteredEvents, refiltered, inflight, alerts,
                    delivered, userLoads, asked, urlVars, icsVars, colorName,
                    modalVars >>

NextColor == CallGetSourceColor

SpecColor == InitColor /\ [][NextColor]_vars

\* C22: getSourceColor is total: for every source name, configured or not,
\* the call returns one of the eight palette entries and raises no error.
C22_ColorIsTotal ==
    pc = "called" =>
        /\ colorResult.kind = "returned"
        /\ \E k \in 1..Len(PaletteKeys) : PaletteKeys[k] = colorResult.entry

----------------------------------------------------------------------------
(* The ids of the list sections as rendering keys, under Spec.              *)

\* C23: in every reachable state the records of the list-sections output
\* carry pairwise distinct ids: no two markers share an id and no two event
\* records share an id, also after the same source has been loaded twice.
C23_IdsAreDistinct ==
    LET g == groupedListEvents
    IN  \A i \in 1..Len(g) : \A j \in 1..Len(g) : i # j => g[i].id # g[j].id

----------------------------------------------------------------------------
(* Source focus, under SpecSelect.                                          *)

\* C24: focus by double-click.  Whenever a source is marked focused, the
\* selection is exactly that single source, under any interleaving of
\* double-clicks, toggles and load completions.
C24_FocusedIsSoleSelection ==
    focusedSource # Null => selectedSources = { focusedSource }

----------------------------------------------------------------------------
(* The event modal: selectEvent (App.js:406-411), the keyboard navigation   *)
(* effect (App.js:210-235), onClose (App.js:525-528) and the backdrop       *)
(* handlers of EventModal.js:53-64.  Indices are those of JavaScript: the   *)
(* first element of an array has index 0.                                   *)

\* A value is truthy: of the values a selection can hold, an object is.
Truthy(v) == v.kind = "object"

\* The operand of an arithmetic operator as a number.
ToNumber(v) ==
    CASE v.kind = "number" -> v
      [] v.kind = "null" -> Num(0)
      [] OTHER -> NaN

\* a + k for an integer k.
Plus(a, k) == IF ToNumber(a).kind = "number" THEN Num(ToNumber(a).n + k) ELSE NaN

\* a % n: the remainder has the sign of a, and is NaN for n = 0.
Remainder(a, n) ==
    IF a.kind # "number" \/ n = 0 THEN NaN
    ELSE IF a.n >= 0 THEN Num(a.n % n) ELSE Num(0 - ((0 - a.n) % n))

\* arr[index]
ElementAt(arr, index) ==
    IF index.kind = "number" /\ index.n >= 0 /\ index.n < Len(arr)
    THEN Obj(arr[index.n + 1]) ELSE Undefined

\* arr.findIndex((e) => e === event)
findIndex(arr, event) ==
    LET found == { i \in 1..Len(arr) : arr[i].oid = event.oid }
    IN  IF found = {} THEN 0 - 1
        ELSE (CHOOSE i \in found : \A j \in found : i <= j) - 1

\* The modal is rendered while selectedEvent is truthy (App.js:522); an
\* EventModal that is mounted anew has a new ignoreClickCloseRef.
ModalRefAfter(ev, ref) == IF Truthy(ev) THEN ref ELSE FALSE

PressedAfter(ev, at) == IF Truthy(ev) THEN at ELSE Null

\* What no handler of the modal changes.
ModalFrame ==
    /\ asked' = NoPrompt
    /\ UNCHANGED << events, sources, selectedSources, focusedSource, searchTerm,
                    selectedTags, dateFilter, customStartDate, customEndDate,
                    now, tzOffset, filteredEvents, refiltered, inflight, alerts,
                    delivered, userLoads, pc, urlVars, icsVars, colorVars >>

\* Lines 406-411: a click on a rendered event.
selectEvent(event) ==
    /\ selectedEvent' = Obj(event)
    /\ selectedEventIndex' = Num(findIndex(filteredEvents, event))
    /\ UNCHANGED << ignoreClickClose, pressed >>
    /\ ModalFrame

SelectEvent == \E i \in 1..Len(filteredEvents) : selectEvent(filteredEvents[i])

\* onClose (App.js:525-528), also the Escape branch of lines 214-216.
onClose ==
    /\ selectedEvent' = NullValue
    /\ selectedEventIndex' = NullValue
    /\ ignoreClickClose' = FALSE
    /\ pressed' = Null
    /\ ModalFrame

\* The index ArrowRight and ArrowLeft move to (lines 219, 224-226).
ArrowRightIndex(n) == Remainder(Plus(selectedEventIndex, 1), n)

ArrowLeftIndex(n) == Remainder(Plus(Plus(selectedEventIndex, 0 - 1), n), n)

MoveTo(index) ==
    LET ev == ElementAt(filteredEvents, index)
    IN  /\ selectedEventIndex' = index
        /\ selectedEvent' = ev
        /\ ignoreClickClose' = ModalRefAfter(ev, ignoreClickClose)
        /\ pressed' = PressedAfter(ev, pressed)
        /\ ModalFrame

\* handleKeyDown (lines 213-230): the listener exists while selectedEvent
\* is truthy.
KeyDown(key) ==
    /\ Truthy(selectedEvent)
    /\ CASE key = "Escape" -> onClose
         [] key = "ArrowRight" -> MoveTo(ArrowRightIndex(Len(filteredEvents)))
         [] key = "ArrowLeft" -> MoveTo(ArrowLeftIndex(Len(filteredEvents)))

KeyEscape == KeyDown("Escape")

KeyArrowRight == KeyDown("ArrowRight")

KeyArrowLeft == KeyDown("ArrowLeft")

\* The Close button of the dialog (EventModal.js:95-101).
CloseButton == Truthy(selectedEvent) /\ onClose

\* onBackdropMouseDown (EventModal.js:54-58); target is where the button
\* went down: on the backdrop itself or inside the dialog.
MouseDownRef(target) == IF target = "backdrop" THEN TRUE ELSE ignoreClickClose

MouseDown ==
    /\ Truthy(selectedEvent)
    /\ \E target \in { "backdrop", "dialog" } :
          /\ ignoreClickClose' = MouseDownRef(target)
          /\ pressed' = target
    /\ UNCHANGED << selectedEvent, selectedEventIndex >>
    /\ ModalFrame

\* onBackdropMouseUp (EventModal.js:59-64).
onBackdropMouseUp(target) ==
    IF ignoreClickClose /\ target = "backdrop"
    THEN onClose
    ELSE /\ ignoreClickClose' = FALSE
         /\ UNCHANGED << selectedEvent, selectedEventIndex, pressed >>
         /\ ModalFrame

MouseUp ==
    /\ Truthy(selectedEvent)
    /\ \E target \in { "backdrop", "dialog" } : onBackdropMouseUp(target)

\* The configured sources loading while events are opened in the modal,
\* stepped through with the keyboard and closed, and the sources toggled.
NextModal ==
    \/ Mount
    \/ Settle
    \/ ToggleSource
    \/ SelectEvent
    \/ KeyEscape
    \/ KeyArrowRight
    \/ KeyArrowLeft
    \/ CloseButton
    \/ MouseDown
    \/ MouseUp

SpecModal == Init /\ [][NextModal]_vars

\* C25: backdrop close.  A mouseup closes the modal only when the most
\* recent mousedown was on the backdrop itself and the mouseup is on the
\* backdrop too; a press that starts inside the dialog and is released on
\* the backdrop never closes it, for every sequence of mousedown and
\* mouseup events, those in which a mouseup never reaches the modal
\* included.
C25_BackdropCloseNeedsBackdropPress ==
    [][ MouseUp /\ ~ Truthy(selectedEvent') => pressed = "backdrop" ]_vars

----------------------------------------------------------------------------
(* Opening the page with a query string and using the filter panel while    *)
(* the configured sources load.                                             *)

NextRestore ==
    \/ Mount
    \/ Settle
    \/ ToggleSource
    \/ SourceDoubleClick

SpecRestore == InitURL /\ [][NextRestore]_vars

----------------------------------------------------------------------------
(* The selection of the modal against the filtered list, under SpecModal.   *)

\* The selection is an index into the filtered list and the event at it.
SelectionConsistent ==
    /\ selectedEventIndex.kind = "number"
    /\ selectedEventIndex.n >= 0
    /\ selectedEventIndex.n < Len(filteredEvents)
    /\ selectedEvent = ElementAt(filteredEvents, selectedEventIndex)

\* C27: whenever the modal is open, selectedEventIndex is an integer in
\* 0..len(filteredEvents)-1 and selectedEvent is the element of
\* filteredEvents at that index, after any interleaving of event selection,
\* arrow keys, filter changes and load completions.
C27_OpenSelectionIsConsistent == Truthy(selectedEvent) => SelectionConsistent

\* The arrow key with the direction d moves the selection from the event
\* shown to its neighbour in the filtered list, cyclically, and the index
\* with it.
CyclicMove(d) ==
    LET n == Len(filteredEvents)
        i == selectedEventIndex
        j == findIndex(filteredEvents, selectedEvent.object)
    IN  /\ n > 0
        /\ i.kind = "number"
        /\ selectedEventIndex' = Num((i.n + d + n) % n)
        /\ j >= 0
        /\ selectedEvent' = Obj(filteredEvents[((j + d + n) % n) + 1])

\* C28: keyboard navigation in the open modal is cyclic over the filtered
\* list: ArrowRight moves the selection to index (i+1) mod n and ArrowLeft
\* to (i-1+n) mod n, n the current length of filteredEvents, so that n
\* presses of ArrowRight return to the starting event; Escape sets
\* selectedEvent and selectedEventIndex to null; and selectedEvent is null
\* exactly when selectedEventIndex is null.
C28_ArrowKeysCycle ==
    [][ /\ KeyArrowRight => CyclicMove(1)
        /\ KeyArrowLeft => CyclicMove(0 - 1)
        /\ KeyEscape => selectedEvent' = NullValue /\ selectedEventIndex' = NullValue
        /\ (selectedEvent' = NullValue) <=> (selectedEventIndex' = NullValue) ]_vars

----------------------------------------------------------------------------
(* The list sections against the filtered list, under SpecList.             *)

\* The local day of the date of the marker of one granularity that stands
\* nearest before place p of the list sections g (-1 when there is none).
NearestMarkerDay(g, p, type) ==
    LET before == { q \in 1..(p - 1) : g[q].type = type }
    IN  IF before = {} THEN 0 - 1
        ELSE LocalDay(g[CHOOSE q \in before : \A r \in before : r <= q].date,
                      tzOffset)

\* C29: the list sections preserve the filtered sequence and are well
\* nested.  The event records, in order, are exactly the filtered events,
\* each once; the output is empty when the filtered list is; and the
\* nearest day, week and month marker before an event record are those of
\* the local day of the event, of its Sunday-start week and of its month.
C29_SectionsFollowFilteredList ==
    LET g == groupedListEvents
    IN  /\ Cardinality(EventPositions(g)) = Len(filteredEvents)
        /\ filteredEvents = << >> => g = << >>
        /\ \A i \in 1..Len(filteredEvents) :
              LET p == PositionOfEvent(g, i)
                  d == DayOfFiltered(i)
              IN  /\ g[p].data = filteredEvents[i]
                  /\ NearestMarkerDay(g, p, "day") = d
                  /\ NearestMarkerDay(g, p, "week") = SundayOnOrBefore(d)
                  /\ NearestMarkerDay(g, p, "month") >= 0
                  /\ SameMonth(NearestMarkerDay(g, p, "month"), d)

C29_Witness ==
    /\ pc # "start"
    /\ Len(filteredEvents) = 2
    /\ SameWeek(DayOfFiltered(1), DayOfFiltered(2))
    /\ ~ SameMonth(DayOfFiltered(1), DayOfFiltered(2))
    /\ Len(groupedListEvents) = 8
    /\ tzOffset # 0

----------------------------------------------------------------------------
(* Calendar navigation: navigateMonth and navigateWeek (App.js:385-395).    *)

RECURSIVE DaysBeforeMonth(_)
DaysBeforeMonth(m) ==
    IF m = 0 THEN 0 ELSE DaysBeforeMonth(m - 1) + MonthLengths[m]

\* The day number of the date-th day of month m (0 for January) of year y;
\* a month outside 0..11 and a date beyond the end of the month run over
\* into the neighbouring year or month, as the Date setters have it.
DayNumber(y, m, date) ==
    (y + (m \div 12) - 1970) * DaysInYear + DaysBeforeMonth(m % 12) + date - 1

\* Date.prototype.setMonth and setDate on the local day d.
setMonth(d, m) == DayNumber(getFullYear(d), m, getDate(d))

setDate(d, date) == DayNumber(getFullYear(d), getMonth(d), date)

\* The instant of the local day d at the time of day of the instant t.
AtTimeOf(d, t, tz) == d * DayLen + ((t + tz) % DayLen) - tz

\* navigateMonth(direction), lines 385-389.
navigateMonth(t, direction, tz) ==
    LET d == LocalDay(t, tz)
    IN  AtTimeOf(setMonth(d, getMonth(d) + direction), t, tz)

\* navigateWeek(direction), lines 391-395.
navigateWeek(t, direction, tz) ==
    LET d == LocalDay(t, tz)
    IN  AtTimeOf(setDate(d, getDate(d) + direction * 7), t, tz)

\* The days the navigation of the model stays within: 21 January 1970 to
\* 25 February 1971.
NavDays == 20..420

\* 31 January, 15 February and 30 March 1970.
NavStartDays == { 30, 45, 88 }

NavOffsets == { -1, 1 }

InitNav ==
    /\ tzOffset \in NavOffsets
    /\ \E d \in NavStartDays : \E tod \in { 0, 2 } :
          currentDate = d * DayLen + tod - tzOffset
    /\ view \in { "month", "week" }
    /\ activeTab = "events"
    /\ search = URLParams(view, activeTab, << >>, NoDate, NoDate, currentDate,
                          {}, {}, "all")
    /\ href = NoQuery
    /\ events = << >>
    /\ sources = << >>
    /\ selectedSources = {}
    /\ focusedSource = Null
    /\ searchTerm = << >>
    /\ selectedTags = {}
    /\ dateFilter = "all"
    /\ customStartDate = NoDate
    /\ customEndDate = NoDate
    /\ now = 5
    /\ filteredEvents = << >>
    /\ refiltered = << >>
    /\ inflight = {}
    /\ alerts = << >>
    /\ delivered = << >>
    /\ userLoads = 0
    /\ pc = "mounted"
    /\ asked = NoPrompt
    /\ icsEvent = Null
    /\ icsText = << >>
    /\ icsParsed = << >>
    /\ colorName = << >>
    /\ colorResult = NullValue
    /\ selectedEvent = NullValue
    /\ selectedEventIndex = NullValue
    /\ ignoreClickClose = FALSE
    /\ pressed = Null

\* setCurrentDate(newDate) and the render after it: the URL write effect
\* mirrors the new date (filteredEvents does not depend on it).
Navigate(newDate) ==
    /\ currentDate' = newDate
    /\ search' = URLParams(view, activeTab, searchTerm, customStartDate,
                           customEndDate, newDate, selectedSources,
                           selectedTags, dateFilter)
    /\ asked' = NoPrompt
    /\ UNCHANGED << events, sources, selectedSources, focusedSource, searchTerm,
                    selectedTags, dateFilter, customStartDate, customEndDate,
                    now, tzOffset, filteredEvents, refiltered, inflight, alerts,
                    delivered, userLoads, pc, view, activeTab, href, icsVars,
                    colorVars, modalVars >>

NavigateMonth(direction) ==
    /\ view = "month"
    /\ LocalDay(currentDate, tzOffset) \in NavDays
    /\ Navigate(navigateMonth(currentDate, direction, tzOffset))

NavigateWeek(direction) ==
    /\ view = "week"
    /\ LocalDay(currentDate, tzOffset) \in NavDays
    /\ Navigate(navigateWeek(currentDate, direction, tzOffset))

PreviousMonth == NavigateMonth(0 - 1)

NextMonth == NavigateMonth(1)

PreviousWeek == NavigateWeek(0 - 1)

NextWeek == NavigateWeek(1)

NextNav ==
    \/ PreviousMonth
    \/ NextMonth
    \/ PreviousWeek
    \/ NextWeek

SpecNav == InitNav /\ [][NextNav]_vars

\* The months of a local day counted from January 1970.
MonthNumber(d) == (getFullYear(d) - 1970) * 12 + getMonth(d)

\* C30: calendar navigation is exact and reversible.  navigateMonth(d) for
\* d = -1 and d = +1 moves the navigation date to the month next to the
\* current one, from every date, the 29th to the 31st included;
\* navigateWeek(d) moves it by exactly 7*d days; and a step followed by the
\* opposite step returns the navigation date to its day.
C30_NavigationExactAndReversible ==
    [][ \A direction \in { 0 - 1, 1 } :
          /\ NavigateMonth(direction) =>
                /\ MonthNumber(LocalDay(currentDate', tzOffset))
                      = MonthNumber(LocalDay(currentDate, tzOffset)) + direction
                /\ LocalDay(navigateMonth(currentDate', 0 - direction, tzOffset),
                            tzOffset) = LocalDay(currentDate, tzOffset)
          /\ NavigateWeek(direction) =>
                /\ LocalDay(currentDate', tzOffset)
                      = LocalDay(currentDate, tzOffset) + 7 * direction
                /\ LocalDay(navigateWeek(currentDate', 0 - direction, tzOffset),
                            tzOffset) = LocalDay(currentDate, tzOffset) ]_vars

====
